---------------------------- MODULE Spec2Model ----------------------------
(***************************************************************************)
(* Model of the travel-assistant core: the keyword intent classifier, the  *)
(* routing supervisor, the multi-source flight search aggregator, the      *)
(* capability gate and the per-session chat endpoint.                      *)
(*                                                                         *)
(* Text is modelled at character level: a Python str is a sequence of      *)
(* one-character tokens.  An ASCII character is the token itself ("a"),    *)
(* any other code point is the token "uXXXX" of its hexadecimal number     *)
(* ("u00e9" is e-acute), so that `kw in msg` is contiguous-subsequence     *)
(* containment exactly as in the source.                                   *)
(***************************************************************************)
EXTENDS Integers, Sequences, FiniteSets, TLC

(***************************************************************************)
(* Python values                                                           *)
(***************************************************************************)

\* Python's None where a str is expected: a one-token sequence that no
\* text can equal, since "None" is not a character token.
None == <<"None">>

\* upper-case / lower-case pairs of the characters that occur in the tables
LowerPairs ==
    { <<"A", "a">>, <<"B", "b">>, <<"C", "c">>, <<"D", "d">>, <<"E", "e">>, <<"F", "f">>,
      <<"G", "g">>, <<"H", "h">>, <<"I", "i">>, <<"J", "j">>, <<"K", "k">>, <<"L", "l">>,
      <<"M", "m">>, <<"N", "n">>, <<"O", "o">>, <<"P", "p">>, <<"Q", "q">>, <<"R", "r">>,
      <<"S", "s">>, <<"T", "t">>, <<"U", "u">>, <<"V", "v">>, <<"W", "w">>, <<"X", "x">>,
      <<"Y", "y">>, <<"Z", "z">>, <<"u00c0", "u00e0">>, <<"u00c1", "u00e1">>, <<"u00c2", "u00e2">>, <<"u00c3", "u00e3">>,
      <<"u00c9", "u00e9">>, <<"u00ca", "u00ea">>, <<"u00cc", "u00ec">>, <<"u00cd", "u00ed">>, <<"u00d2", "u00f2">>, <<"u00d3", "u00f3">>,
      <<"u00d4", "u00f4">>, <<"u00d9", "u00f9">>, <<"u00da", "u00fa">>, <<"u00dd", "u00fd">>, <<"u0102", "u0103">>, <<"u0110", "u0111">>,
      <<"u01a0", "u01a1">>, <<"u01af", "u01b0">>, <<"u1ea0", "u1ea1">>, <<"u1ea2", "u1ea3">>, <<"u1ea4", "u1ea5">>, <<"u1eac", "u1ead">>,
      <<"u1eae", "u1eaf">>, <<"u1eb4", "u1eb5">>, <<"u1eb6", "u1eb7">>, <<"u1eb8", "u1eb9">>, <<"u1eba", "u1ebb">>, <<"u1ebe", "u1ebf">>,
      <<"u1ec0", "u1ec1">>, <<"u1ec2", "u1ec3">>, <<"u1ec6", "u1ec7">>, <<"u1eca", "u1ecb">>, <<"u1ed0", "u1ed1">>, <<"u1ed2", "u1ed3">>,
      <<"u1ed4", "u1ed5">>, <<"u1ed6", "u1ed7">>, <<"u1ed8", "u1ed9">>, <<"u1edc", "u1edd">>, <<"u1ede", "u1edf">>, <<"u1ee2", "u1ee3">>,
      <<"u1ee4", "u1ee5">>, <<"u1ee6", "u1ee7">>, <<"u1ee8", "u1ee9">>, <<"u1eea", "u1eeb">>, <<"u1eec", "u1eed">>, <<"u1eee", "u1eef">>,
      <<"u1ef8", "u1ef9">> }

UpperChars == {p[1] : p \in LowerPairs}

LowerMap == [u \in UpperChars |-> (CHOOSE p \in LowerPairs : p[1] = u)[2]]

\* one character of str.lower()
LowerChar(c) == IF c \in UpperChars THEN LowerMap[c] ELSE c

\* str.lower()
Lower(s) == [i \in 1..Len(s) |-> LowerChar(s[i])]

\* Python `kw in s` for two str
Contains(kw, s) ==
    \E i \in 1..(Len(s) - Len(kw) + 1) : SubSeq(s, i, i + Len(kw) - 1) = kw

\* sum(1 for kw in KEYWORDS if kw in s): one per list entry that occurs
Score(KEYWORDS, s) ==
    Cardinality({i \in 1..Len(KEYWORDS) : Contains(KEYWORDS[i], s)})

\* any(kw in s for kw in KEYWORDS)
AnyIn(KEYWORDS, s) == \E i \in 1..Len(KEYWORDS) : Contains(KEYWORDS[i], s)

(***************************************************************************)
(* Keyword tables of the intent classifier                                 *)
(***************************************************************************)

\* FLIGHT_KEYWORDS: supervisor.py lines 20-30
FLIGHT_KEYWORDS ==
    << <<"v", "u00e9">>,
       <<"v", "e">>,
       <<"c", "h", "u", "y", "u1ebf", "n", " ", "b", "a", "y">>,
       <<"c", "h", "u", "y", "e", "n", " ", "b", "a", "y">>,
       <<"f", "l", "i", "g", "h", "t">>,
       <<"b", "a", "y">>,
       <<"t", "u00ec", "m", " ", "v", "u00e9">>,
       <<"t", "i", "m", " ", "v", "e">>,
       <<"u0111", "u1eb7", "t", " ", "v", "u00e9">>,
       <<"d", "a", "t", " ", "v", "e">>,
       <<"g", "i", "u00e1", " ", "v", "u00e9">>,
       <<"g", "i", "a", " ", "v", "e">>,
       <<"k", "h", "u1ee9", " ", "h", "u1ed3", "i">>,
       <<"k", "h", "u", " ", "h", "o", "i">>,
       <<"m", "u1ed9", "t", " ", "c", "h", "i", "u1ec1", "u">>,
       <<"m", "o", "t", " ", "c", "h", "i", "e", "u">>,
       <<"r", "o", "u", "n", "d", "t", "r", "i", "p">>,
       <<"o", "n", "e", "w", "a", "y">>,
       <<"s", "g", "n">>,
       <<"h", "a", "n">>,
       <<"d", "a", "d">>,
       <<"s", "u00e0", "i", " ", "g", "u00f2", "n">>,
       <<"s", "a", "i", " ", "g", "o", "n">>,
       <<"h", "u00e0", " ", "n", "u1ed9", "i">>,
       <<"h", "a", " ", "n", "o", "i">>,
       <<"u0111", "u00e0", " ", "n", "u1eb5", "n", "g">>,
       <<"d", "a", " ", "n", "a", "n", "g">>,
       <<"h", "c", "m">>,
       <<"h", "n">>,
       <<"u0111", "i">>,
       <<"d", "i">>,
       <<"u0111", "u1ebf", "n">>,
       <<"d", "e", "n">>,
       <<"t", "u1eeb">>,
       <<"t", "u">>,
       <<"s", "g">>,
       <<"d", "n">>,
       <<"s", "g", "-", "h", "n">>,
       <<"h", "n", "-", "s", "g">>,
       <<"s", "g", "-", "d", "n">>,
       <<"d", "n", "-", "s", "g">>,
       <<"h", "n", "-", "d", "n">>,
       <<"d", "n", "-", "h", "n">>,
       <<"s", "u00e0", "i", " ", "g", "u00f2", "n", " ", "h", "u00e0", " ", "n", "u1ed9", "i">>,
       <<"h", "u00e0", " ", "n", "u1ed9", "i", " ", "s", "u00e0", "i", " ", "g", "u00f2", "n">>,
       <<"s", "a", "i", "g", "o", "n", " ", "h", "a", "n", "o", "i">>,
       <<"h", "a", "n", "o", "i", " ", "s", "a", "i", "g", "o", "n">> >>

\* FLIGHT_STRONG_KEYWORDS: supervisor.py lines 33-38
FLIGHT_STRONG_KEYWORDS ==
    << <<"c", "h", "u", "y", "u1ebf", "n", " ", "b", "a", "y">>,
       <<"c", "h", "u", "y", "e", "n", " ", "b", "a", "y">>,
       <<"f", "l", "i", "g", "h", "t">>,
       <<"v", "u00e9", " ", "m", "u00e1", "y", " ", "b", "a", "y">>,
       <<"v", "e", " ", "m", "a", "y", " ", "b", "a", "y">>,
       <<"t", "u00ec", "m", " ", "v", "u00e9">>,
       <<"t", "i", "m", " ", "v", "e">>,
       <<"u0111", "u1eb7", "t", " ", "v", "u00e9">>,
       <<"d", "a", "t", " ", "v", "e">>,
       <<"g", "i", "u00e1", " ", "v", "u00e9">>,
       <<"g", "i", "a", " ", "v", "e">>,
       <<"k", "h", "u1ee9", " ", "h", "u1ed3", "i">>,
       <<"k", "h", "u", " ", "h", "o", "i">>,
       <<"m", "u1ed9", "t", " ", "c", "h", "i", "u1ec1", "u">>,
       <<"m", "o", "t", " ", "c", "h", "i", "e", "u">>,
       <<"r", "o", "u", "n", "d", "t", "r", "i", "p">>,
       <<"o", "n", "e", "w", "a", "y">>,
       <<"s", "g", "-", "h", "n">>,
       <<"h", "n", "-", "s", "g">>,
       <<"s", "g", "-", "d", "n">>,
       <<"d", "n", "-", "s", "g">>,
       <<"s", "g", "n", "-", "h", "a", "n">>,
       <<"h", "a", "n", "-", "s", "g", "n">> >>

\* BOOKING_KEYWORDS: supervisor.py lines 40-43
BOOKING_KEYWORDS ==
    << <<"p", "n", "r">>,
       <<"b", "o", "o", "k", "i", "n", "g">>,
       <<"m", "u00e3", " ", "u0111", "u1eb7", "t">>,
       <<"m", "a", " ", "d", "a", "t">>,
       <<"t", "r", "a", " ", "c", "u1ee9", "u">>,
       <<"t", "r", "a", " ", "c", "u", "u">>,
       <<"k", "i", "u1ec3", "m", " ", "t", "r", "a">>,
       <<"k", "i", "e", "m", " ", "t", "r", "a">>,
       <<"u0111", "u1eb7", "t", " ", "c", "h", "u1ed7">>,
       <<"d", "a", "t", " ", "c", "h", "o">>,
       <<"g", "i", "u1eef", " ", "c", "h", "u1ed7">>,
       <<"g", "i", "u", " ", "c", "h", "o">> >>

\* TICKETING_KEYWORDS: supervisor.py lines 45-50
TICKETING_KEYWORDS ==
    << <<"x", "u", "u1ea5", "t", " ", "v", "u00e9">>,
       <<"x", "u", "a", "t", " ", "v", "e">>,
       <<"i", "s", "s", "u", "e", " ", "t", "i", "c", "k", "e", "t">>,
       <<"p", "h", "u00e1", "t", " ", "v", "u00e9">>,
       <<"p", "h", "a", "t", " ", "v", "e">>,
       <<"v", "o", "i", "d">>,
       <<"h", "o", "u00e0", "n", " ", "v", "u00e9">>,
       <<"h", "o", "a", "n", " ", "v", "e">>,
       <<"u0111", "u1ed5", "i", " ", "v", "u00e9">>,
       <<"d", "o", "i", " ", "v", "e">>,
       <<"r", "e", "i", "s", "s", "u", "e">>,
       <<"s", "u1ed1", " ", "v", "u00e9">>,
       <<"s", "o", " ", "v", "e">>,
       <<"t", "i", "c", "k", "e", "t", " ", "n", "u", "m", "b", "e", "r">>,
       <<"v", "u00e9", " ", "u0111", "i", "u1ec7", "n", " ", "t", "u1eed">>,
       <<"v", "e", " ", "d", "i", "e", "n", " ", "t", "u">>,
       <<"e", "m", "d">>,
       <<"r", "e", "f", "u", "n", "d">>,
       <<"h", "o", "u00e0", "n", " ", "t", "i", "u1ec1", "n">>,
       <<"h", "o", "a", "n", " ", "t", "i", "e", "n">> >>

\* PNR_KEYWORDS: supervisor.py lines 52-58
PNR_KEYWORDS ==
    << <<"p", "n", "r">>,
       <<"b", "o", "o", "k", "i", "n", "g">>,
       <<"h", "u1ee7", "y", " ", "b", "o", "o", "k", "i", "n", "g">>,
       <<"h", "u", "y", " ", "b", "o", "o", "k", "i", "n", "g">>,
       <<"c", "a", "n", "c", "e", "l">>,
       <<"h", "u1ee7", "y", " ", "c", "h", "u1eb7", "n", "g">>,
       <<"h", "u", "y", " ", "c", "h", "a", "n", "g">>,
       <<"u0111", "u1ed5", "i", " ", "c", "h", "u", "y", "u1ebf", "n">>,
       <<"d", "o", "i", " ", "c", "h", "u", "y", "e", "n">>,
       <<"t", "h", "u00ea", "m", " ", "h", "u00e0", "n", "h", " ", "k", "h", "u00e1", "c", "h">>,
       <<"t", "h", "e", "m", " ", "h", "a", "n", "h", " ", "k", "h", "a", "c", "h">>,
       <<"s", "p", "l", "i", "t">>,
       <<"t", "u00e1", "c", "h", " ", "p", "n", "r">>,
       <<"s", "s", "r">>,
       <<"f", "f", "n">>,
       <<"f", "r", "e", "q", "u", "e", "n", "t", " ", "f", "l", "y", "e", "r">>,
       <<"t", "h", "u1ebb", " ", "t", "h", "u00e0", "n", "h", " ", "v", "i", "u00ea", "n">>,
       <<"t", "h", "e", " ", "t", "h", "a", "n", "h", " ", "v", "i", "e", "n">>,
       <<"r", "e", "m", "a", "r", "k">>,
       <<"o", "s", "i">>,
       <<"c", "u1ead", "p", " ", "n", "h", "u1ead", "t", " ", "l", "i", "u00ea", "n", " ", "h", "u1ec7">>,
       <<"c", "a", "p", " ", "n", "h", "a", "t", " ", "l", "i", "e", "n", " ", "h", "e">> >>

\* ANCILLARY_KEYWORDS: supervisor.py lines 60-65
ANCILLARY_KEYWORDS ==
    << <<"g", "h", "u1ebf">>,
       <<"g", "h", "e">>,
       <<"s", "e", "a", "t">>,
       <<"c", "h", "u1ed7", " ", "n", "g", "u1ed3", "i">>,
       <<"c", "h", "o", " ", "n", "g", "o", "i">>,
       <<"s", "u01a1", " ", "u0111", "u1ed3", " ", "g", "h", "u1ebf">>,
       <<"s", "o", " ", "d", "o", " ", "g", "h", "e">>,
       <<"h", "u00e0", "n", "h", " ", "l", "u00fd">>,
       <<"h", "a", "n", "h", " ", "l", "y">>,
       <<"b", "a", "g", "g", "a", "g", "e">>,
       <<"l", "u", "g", "g", "a", "g", "e">>,
       <<"v", "a", "l", "i">>,
       <<"t", "u00fa", "i", " ", "x", "u00e1", "c", "h">>,
       <<"s", "u", "u1ea5", "t", " ", "u0103", "n">>,
       <<"s", "u", "a", "t", " ", "a", "n">>,
       <<"m", "e", "a", "l">>,
       <<"u0111", "u1ed3", " ", "u0103", "n">>,
       <<"d", "o", " ", "a", "n">>,
       <<"d", "u1ecb", "c", "h", " ", "v", "u1ee5">>,
       <<"d", "i", "c", "h", " ", "v", "u">>,
       <<"t", "h", "u00ea", "m", " ", "d", "u1ecb", "c", "h", " ", "v", "u1ee5">>,
       <<"t", "h", "e", "m", " ", "d", "i", "c", "h", " ", "v", "u">> >>

\* CHAT_KEYWORDS: supervisor.py lines 73-92
CHAT_KEYWORDS ==
    << <<"m", "u00f9", "a", " ", "n", "u00e0", "o">>,
       <<"m", "u", "a", " ", "n", "a", "o">>,
       <<"t", "h", "u1edd", "i", " ", "t", "i", "u1ebf", "t">>,
       <<"t", "h", "o", "i", " ", "t", "i", "e", "t">>,
       <<"w", "e", "a", "t", "h", "e", "r">>,
       <<"s", "e", "a", "s", "o", "n">>,
       <<"k", "h", "i", " ", "n", "u00e0", "o">>,
       <<"k", "h", "i", " ", "n", "a", "o">>,
       <<"l", "u00fa", "c", " ", "n", "u00e0", "o">>,
       <<"l", "u", "c", " ", "n", "a", "o">>,
       <<"b", "a", "o", " ", "g", "i", "u1edd">>,
       <<"b", "a", "o", " ", "g", "i", "o">>,
       <<"u0111", "u1eb9", "p", " ", "n", "h", "u1ea5", "t">>,
       <<"d", "e", "p", " ", "n", "h", "a", "t">>,
       <<"b", "e", "s", "t", " ", "t", "i", "m", "e">>,
       <<"n", "u00ea", "n", " ", "u0111", "i">>,
       <<"n", "e", "n", " ", "d", "i">>,
       <<"t", "h", "u00ed", "c", "h", " ", "h", "u1ee3", "p">>,
       <<"t", "h", "i", "c", "h", " ", "h", "o", "p">>,
       <<"p", "h", "u00f9", " ", "h", "u1ee3", "p">>,
       <<"p", "h", "u", " ", "h", "o", "p">>,
       <<"g", "u1ee3", "i", " ", "u00fd">>,
       <<"g", "o", "i", " ", "y">>,
       <<"s", "u", "g", "g", "e", "s", "t">>,
       <<"r", "e", "c", "o", "m", "m", "e", "n", "d">>,
       <<"t", "u01b0", " ", "v", "u1ea5", "n">>,
       <<"t", "u", " ", "v", "a", "n">>,
       <<"l", "u00e0", " ", "g", "u00ec">>,
       <<"l", "a", " ", "g", "i">>,
       <<"w", "h", "a", "t", " ", "i", "s">>,
       <<"h", "o", "w", " ", "t", "o">>,
       <<"l", "u00e0", "m", " ", "s", "a", "o">>,
       <<"l", "a", "m", " ", "s", "a", "o">>,
       <<"u1edf", " ", "u0111", "u00e2", "u">>,
       <<"o", " ", "d", "a", "u">>,
       <<"w", "h", "e", "r", "e">>,
       <<"t", "u1ea1", "i", " ", "s", "a", "o">>,
       <<"t", "a", "i", " ", "s", "a", "o">>,
       <<"w", "h", "y">>,
       <<"b", "a", "o", " ", "n", "h", "i", "u00ea", "u">>,
       <<"b", "a", "o", " ", "n", "h", "i", "e", "u">>,
       <<"h", "o", "w", " ", "m", "u", "c", "h">>,
       <<"h", "o", "w", " ", "m", "a", "n", "y">>,
       <<"c", "h", "u00ed", "n", "h", " ", "s", "u00e1", "c", "h">>,
       <<"c", "h", "i", "n", "h", " ", "s", "a", "c", "h">>,
       <<"p", "o", "l", "i", "c", "y">>,
       <<"q", "u", "y", " ", "u0111", "u1ecb", "n", "h">>,
       <<"q", "u", "y", " ", "d", "i", "n", "h">>,
       <<"h", "u00e0", "n", "h", " ", "l", "u00fd">>,
       <<"h", "a", "n", "h", " ", "l", "y">>,
       <<"b", "a", "g", "g", "a", "g", "e">>,
       <<"l", "u", "g", "g", "a", "g", "e">>,
       <<"k", "u00fd", " ", "g", "u1eed", "i">>,
       <<"k", "y", " ", "g", "u", "i">>,
       <<"h", "o", "u00e0", "n", " ", "v", "u00e9">>,
       <<"h", "o", "a", "n", " ", "v", "e">>,
       <<"r", "e", "f", "u", "n", "d">>,
       <<"u0111", "u1ed5", "i", " ", "v", "u00e9">>,
       <<"d", "o", "i", " ", "v", "e">>,
       <<"c", "h", "a", "n", "g", "e">>,
       <<"c", "u00f3", " ", "n", "u00ea", "n">>,
       <<"c", "o", " ", "n", "e", "n">>,
       <<"s", "h", "o", "u", "l", "d", " ", "i">>,
       <<"c", "u00f3", " ", "u0111", "u01b0", "u1ee3", "c">>,
       <<"c", "o", " ", "d", "u", "o", "c">>,
       <<"n", "h", "u01b0", " ", "t", "h", "u1ebf", " ", "n", "u00e0", "o">>,
       <<"n", "h", "u", " ", "t", "h", "e", " ", "n", "a", "o">>,
       <<"h", "o", "w">>,
       <<"t", "h", "u1ebf", " ", "n", "u00e0", "o">>,
       <<"t", "h", "e", " ", "n", "a", "o">> >>

\* continue_keywords, local to detect_intent
CONTINUE_KEYWORDS ==
    << <<"t", "i", "u1ebf", "p">>,
       <<"t", "i", "e", "p">>,
       <<"x", "u1eed", " ", "l", "u00fd">>,
       <<"x", "u", " ", "l", "y">>,
       <<"u0111", "i">>,
       <<"d", "i">>,
       <<"o", "k">>,
       <<"u0111", "u01b0", "u1ee3", "c">>,
       <<"d", "u", "o", "c">>,
       <<"y", "e", "s">>,
       <<"v", "u00e2", "n", "g">>,
       <<"v", "a", "n", "g">> >>

\* the farewell list, inline in detect_intent
FAREWELL_KEYWORDS ==
    << <<"t", "u1ea1", "m", " ", "b", "i", "u1ec7", "t">>,
       <<"b", "y", "e">>,
       <<"g", "o", "o", "d", "b", "y", "e">> >>

(***************************************************************************)
(* Conversation state                                                      *)
(***************************************************************************)

\* FlightSearchParams() with every field at its default
DefaultFlightSearchParams ==
    [ search_type |-> "oneway", origin |-> None, destination |-> None,
      departure_date |-> None, return_date |-> None,
      adults |-> 1, children |-> 0, infants |-> 0,
      cabin_class |-> "ECONOMY", legs |-> None, country_suggestions |-> <<>> ]

(***************************************************************************)
(* Intent classifier                                                       *)
(***************************************************************************)

\* detect_intent with the chat tier tried before the strong flight tier
detect_intent_chat_first(message, state) ==
    LET msg_lower == Lower(message)
    IN  IF Score(TICKETING_KEYWORDS, msg_lower) >= 1 THEN "ticketing"
        ELSE IF Score(ANCILLARY_KEYWORDS, msg_lower) >= 1 THEN "ancillary"
        ELSE IF Score(PNR_KEYWORDS, msg_lower) >= 2 THEN "pnr"
        ELSE IF Score(CHAT_KEYWORDS, msg_lower) >= 1 THEN "chat"
        ELSE IF AnyIn(FLIGHT_STRONG_KEYWORDS, msg_lower) THEN "flight"
        ELSE IF Score(BOOKING_KEYWORDS, msg_lower) >= 2 THEN "booking"
        ELSE IF Score(FLIGHT_KEYWORDS, msg_lower) >= 2 THEN "flight"
        ELSE IF /\ state # <<>>
                /\ \/ state[1].flight_search.origin # None
                   \/ state[1].flight_search.destination # None
                /\ AnyIn(CONTINUE_KEYWORDS, msg_lower) THEN "flight"
        ELSE IF AnyIn(FAREWELL_KEYWORDS, msg_lower) THEN "end"
        ELSE "chat"

\* detect_intent with a PNR threshold of one hit
detect_intent_pnr_one(message, state) ==
    LET msg_lower == Lower(message)
    IN  IF Score(TICKETING_KEYWORDS, msg_lower) >= 1 THEN "ticketing"
        ELSE IF Score(ANCILLARY_KEYWORDS, msg_lower) >= 1 THEN "ancillary"
        ELSE IF Score(PNR_KEYWORDS, msg_lower) >= 1 THEN "pnr"
        ELSE IF AnyIn(FLIGHT_STRONG_KEYWORDS, msg_lower) THEN "flight"
        ELSE IF Score(CHAT_KEYWORDS, msg_lower) >= 1 THEN "chat"
        ELSE IF Score(BOOKING_KEYWORDS, msg_lower) >= 2 THEN "booking"
        ELSE IF Score(FLIGHT_KEYWORDS, msg_lower) >= 2 THEN "flight"
        ELSE IF /\ state # <<>>
                /\ \/ state[1].flight_search.origin # None
                   \/ state[1].flight_search.destination # None
                /\ AnyIn(CONTINUE_KEYWORDS, msg_lower) THEN "flight"
        ELSE IF AnyIn(FAREWELL_KEYWORDS, msg_lower) THEN "end"
        ELSE "chat"

\* detect_intent with the weak flight tier tried before the chat tier
detect_intent_weak_first(message, state) ==
    LET msg_lower == Lower(message)
    IN  IF Score(TICKETING_KEYWORDS, msg_lower) >= 1 THEN "ticketing"
        ELSE IF Score(ANCILLARY_KEYWORDS, msg_lower) >= 1 THEN "ancillary"
        ELSE IF Score(PNR_KEYWORDS, msg_lower) >= 2 THEN "pnr"
        ELSE IF AnyIn(FLIGHT_STRONG_KEYWORDS, msg_lower) THEN "flight"
        ELSE IF Score(FLIGHT_KEYWORDS, msg_lower) >= 2 THEN "flight"
        ELSE IF Score(CHAT_KEYWORDS, msg_lower) >= 1 THEN "chat"
        ELSE IF Score(BOOKING_KEYWORDS, msg_lower) >= 2 THEN "booking"
        ELSE IF /\ state # <<>>
                /\ \/ state[1].flight_search.origin # None
                   \/ state[1].flight_search.destination # None
                /\ AnyIn(CONTINUE_KEYWORDS, msg_lower) THEN "flight"
        ELSE IF AnyIn(FAREWELL_KEYWORDS, msg_lower) THEN "end"
        ELSE "chat"

\* detect_intent with the continuation tier applied whatever the prior
\* state holds
detect_intent_no_context(message, state) ==
    LET msg_lower == Lower(message)
    IN  IF Score(TICKETING_KEYWORDS, msg_lower) >= 1 THEN "ticketing"
        ELSE IF Score(ANCILLARY_KEYWORDS, msg_lower) >= 1 THEN "ancillary"
        ELSE IF Score(PNR_KEYWORDS, msg_lower) >= 2 THEN "pnr"
        ELSE IF AnyIn(FLIGHT_STRONG_KEYWORDS, msg_lower) THEN "flight"
        ELSE IF Score(CHAT_KEYWORDS, msg_lower) >= 1 THEN "chat"
        ELSE IF Score(BOOKING_KEYWORDS, msg_lower) >= 2 THEN "booking"
        ELSE IF Score(FLIGHT_KEYWORDS, msg_lower) >= 2 THEN "flight"
        ELSE IF AnyIn(CONTINUE_KEYWORDS, msg_lower) THEN "flight"
        ELSE IF AnyIn(FAREWELL_KEYWORDS, msg_lower) THEN "end"
        ELSE "chat"

\* detect_intent(message, state); state is <<>> for None, <<s>> for a state s
detect_intent(message, state) ==
    LET msg_lower == Lower(message)
        ticketing_score == Score(TICKETING_KEYWORDS, msg_lower)
        ancillary_score == Score(ANCILLARY_KEYWORDS, msg_lower)
        pnr_score == Score(PNR_KEYWORDS, msg_lower)
        chat_score == Score(CHAT_KEYWORDS, msg_lower)
        booking_score == Score(BOOKING_KEYWORDS, msg_lower)
        flight_score == Score(FLIGHT_KEYWORDS, msg_lower)
    IN  IF ticketing_score >= 1 THEN "ticketing"
        ELSE IF ancillary_score >= 1 THEN "ancillary"
        ELSE IF pnr_score >= 2 THEN "pnr"
        ELSE IF AnyIn(FLIGHT_STRONG_KEYWORDS, msg_lower) THEN "flight"
        ELSE IF chat_score >= 1 THEN "chat"
        ELSE IF booking_score >= 2 THEN "booking"
        ELSE IF flight_score >= 2 THEN "flight"
        ELSE IF /\ state # <<>>
                /\ \/ state[1].flight_search.origin # None
                   \/ state[1].flight_search.destination # None
                /\ AnyIn(CONTINUE_KEYWORDS, msg_lower) THEN "flight"
        ELSE IF AnyIn(FAREWELL_KEYWORDS, msg_lower) THEN "end"
        ELSE "chat"

(***************************************************************************)
(* Parameter extractor                                                     *)
(***************************************************************************)

\* AIRPORT_CODES, as (name, code) pairs in the order of the dict
AIRPORT_CODES ==
    << <<<<"s", "u00e0", "i", " ", "g", "u00f2", "n">>, <<"S", "G", "N">>>>,
       <<<<"s", "a", "i", " ", "g", "o", "n">>, <<"S", "G", "N">>>>,
       <<<<"h", "u1ed3", " ", "c", "h", "u00ed", " ", "m", "i", "n", "h">>, <<"S", "G", "N">>>>,
       <<<<"h", "o", " ", "c", "h", "i", " ", "m", "i", "n", "h">>, <<"S", "G", "N">>>>,
       <<<<"h", "c", "m">>, <<"S", "G", "N">>>>,
       <<<<"s", "g">>, <<"S", "G", "N">>>>,
       <<<<"t", "u00e2", "n", " ", "s", "u01a1", "n", " ", "n", "h", "u1ea5", "t">>, <<"S", "G", "N">>>>,
       <<<<"h", "u00e0", " ", "n", "u1ed9", "i">>, <<"H", "A", "N">>>>,
       <<<<"h", "a", " ", "n", "o", "i">>, <<"H", "A", "N">>>>,
       <<<<"h", "n">>, <<"H", "A", "N">>>>,
       <<<<"n", "u1ed9", "i", " ", "b", "u00e0", "i">>, <<"H", "A", "N">>>>,
       <<<<"u0111", "u00e0", " ", "n", "u1eb5", "n", "g">>, <<"D", "A", "D">>>>,
       <<<<"d", "a", " ", "n", "a", "n", "g">>, <<"D", "A", "D">>>>,
       <<<<"u0111", "n">>, <<"D", "A", "D">>>>,
       <<<<"d", "n">>, <<"D", "A", "D">>>>,
       <<<<"n", "h", "a", " ", "t", "r", "a", "n", "g">>, <<"C", "X", "R">>>>,
       <<<<"c", "a", "m", " ", "r", "a", "n", "h">>, <<"C", "X", "R">>>>,
       <<<<"p", "h", "u00fa", " ", "q", "u", "u1ed1", "c">>, <<"P", "Q", "C">>>>,
       <<<<"p", "h", "u", " ", "q", "u", "o", "c">>, <<"P", "Q", "C">>>>,
       <<<<"u0111", "u00e0", " ", "l", "u1ea1", "t">>, <<"D", "L", "I">>>>,
       <<<<"d", "a", " ", "l", "a", "t">>, <<"D", "L", "I">>>>,
       <<<<"h", "u", "u1ebf">>, <<"H", "U", "I">>>>,
       <<<<"h", "u", "e">>, <<"H", "U", "I">>>>,
       <<<<"h", "u1ea3", "i", " ", "p", "h", "u00f2", "n", "g">>, <<"H", "P", "H">>>>,
       <<<<"h", "a", "i", " ", "p", "h", "o", "n", "g">>, <<"H", "P", "H">>>>,
       <<<<"q", "u", "y", " ", "n", "h", "u01a1", "n">>, <<"U", "I", "H">>>>,
       <<<<"q", "u", "y", " ", "n", "h", "o", "n">>, <<"U", "I", "H">>>>,
       <<<<"b", "a", "n", "g", "k", "o", "k">>, <<"B", "K", "K">>>>,
       <<<<"t", "h", "u00e1", "i", " ", "l", "a", "n">>, <<"B", "K", "K">>>>,
       <<<<"t", "h", "a", "i", " ", "l", "a", "n">>, <<"B", "K", "K">>>>,
       <<<<"s", "i", "n", "g", "a", "p", "o", "r", "e">>, <<"S", "I", "N">>>>,
       <<<<"s", "e", "o", "u", "l">>, <<"I", "C", "N">>>>,
       <<<<"i", "n", "c", "h", "e", "o", "n">>, <<"I", "C", "N">>>>,
       <<<<"h", "u00e0", "n", " ", "q", "u", "u1ed1", "c">>, <<"I", "C", "N">>>>,
       <<<<"h", "a", "n", " ", "q", "u", "o", "c">>, <<"I", "C", "N">>>>,
       <<<<"h", "u00e0", "n">>, <<"I", "C", "N">>>>,
       <<<<"h", "a", "n">>, <<"I", "C", "N">>>>,
       <<<<"t", "o", "k", "y", "o">>, <<"N", "R", "T">>>>,
       <<<<"n", "a", "r", "i", "t", "a">>, <<"N", "R", "T">>>>,
       <<<<"n", "h", "u1ead", "t", " ", "b", "u1ea3", "n">>, <<"N", "R", "T">>>>,
       <<<<"n", "h", "a", "t", " ", "b", "a", "n">>, <<"N", "R", "T">>>>,
       <<<<"n", "h", "u1ead", "t">>, <<"N", "R", "T">>>>,
       <<<<"n", "h", "a", "t">>, <<"N", "R", "T">>>>,
       <<<<"o", "s", "a", "k", "a">>, <<"K", "I", "X">>>>,
       <<<<"h", "o", "n", "g", " ", "k", "o", "n", "g">>, <<"H", "K", "G">>>>,
       <<<<"h", "u1ed3", "n", "g", " ", "k", "u00f4", "n", "g">>, <<"H", "K", "G">>>>,
       <<<<"t", "a", "i", "p", "e", "i">>, <<"T", "P", "E">>>>,
       <<<<"u0111", "u00e0", "i", " ", "l", "o", "a", "n">>, <<"T", "P", "E">>>>,
       <<<<"d", "a", "i", " ", "l", "o", "a", "n">>, <<"T", "P", "E">>>>,
       <<<<"u0111", "u00e0", "i", " ", "b", "u1eaf", "c">>, <<"T", "P", "E">>>>,
       <<<<"k", "u", "a", "l", "a", " ", "l", "u", "m", "p", "u", "r">>, <<"K", "U", "L">>>>,
       <<<<"m", "a", "l", "a", "y", "s", "i", "a">>, <<"K", "U", "L">>>>,
       <<<<"m", "a", "n", "i", "l", "a">>, <<"M", "N", "L">>>>,
       <<<<"p", "h", "i", "l", "i", "p", "p", "i", "n", "e", "s">>, <<"M", "N", "L">>>>,
       <<<<"j", "a", "k", "a", "r", "t", "a">>, <<"C", "G", "K">>>>,
       <<<<"i", "n", "d", "o", "n", "e", "s", "i", "a">>, <<"C", "G", "K">>>>,
       <<<<"b", "a", "l", "i">>, <<"D", "P", "S">>>>,
       <<<<"d", "e", "n", "p", "a", "s", "a", "r">>, <<"D", "P", "S">>>>,
       <<<<"p", "a", "r", "i", "s">>, <<"C", "D", "G">>>>,
       <<<<"p", "h", "u00e1", "p">>, <<"C", "D", "G">>>>,
       <<<<"p", "h", "a", "p">>, <<"C", "D", "G">>>>,
       <<<<"l", "o", "n", "d", "o", "n">>, <<"L", "H", "R">>>>,
       <<<<"a", "n", "h">>, <<"L", "H", "R">>>>,
       <<<<"s", "y", "d", "n", "e", "y">>, <<"S", "Y", "D">>>>,
       <<<<"u00fa", "c">>, <<"S", "Y", "D">>>>,
       <<<<"u", "c">>, <<"S", "Y", "D">>>>,
       <<<<"a", "u", "s", "t", "r", "a", "l", "i", "a">>, <<"S", "Y", "D">>>>,
       <<<<"l", "o", "s", " ", "a", "n", "g", "e", "l", "e", "s">>, <<"L", "A", "X">>>>,
       <<<<"n", "e", "w", " ", "y", "o", "r", "k">>, <<"J", "F", "K">>>>,
       <<<<"s", "a", "n", " ", "f", "r", "a", "n", "c", "i", "s", "c", "o">>, <<"S", "F", "O">>>> >>

\* COUNTRY_AIRPORTS, as (country, airports) pairs in the order of the dict
COUNTRY_AIRPORTS ==
    << <<<<"h", "u00e0", "n", " ", "q", "u", "u1ed1", "c">>,
          << <<"I", "C", "N", " ", "(", "S", "e", "o", "u", "l", "/", "I", "n", "c", "h", "e", "o", "n", ")">>,
             <<"P", "U", "S", " ", "(", "B", "u", "s", "a", "n", ")">> >> >>,
       <<<<"h", "a", "n", " ", "q", "u", "o", "c">>,
          << <<"I", "C", "N", " ", "(", "S", "e", "o", "u", "l", "/", "I", "n", "c", "h", "e", "o", "n", ")">>,
             <<"P", "U", "S", " ", "(", "B", "u", "s", "a", "n", ")">> >> >>,
       <<<<"h", "u00e0", "n">>,
          << <<"I", "C", "N", " ", "(", "S", "e", "o", "u", "l", "/", "I", "n", "c", "h", "e", "o", "n", ")">>,
             <<"P", "U", "S", " ", "(", "B", "u", "s", "a", "n", ")">> >> >>,
       <<<<"h", "a", "n">>,
          << <<"I", "C", "N", " ", "(", "S", "e", "o", "u", "l", "/", "I", "n", "c", "h", "e", "o", "n", ")">>,
             <<"P", "U", "S", " ", "(", "B", "u", "s", "a", "n", ")">> >> >>,
       <<<<"n", "h", "u1ead", "t", " ", "b", "u1ea3", "n">>,
          << <<"N", "R", "T", " ", "(", "T", "o", "k", "y", "o", "/", "N", "a", "r", "i", "t", "a", ")">>,
             <<"H", "N", "D", " ", "(", "T", "o", "k", "y", "o", "/", "H", "a", "n", "e", "d", "a", ")">>,
             <<"K", "I", "X", " ", "(", "O", "s", "a", "k", "a", ")">>,
             <<"N", "G", "O", " ", "(", "N", "a", "g", "o", "y", "a", ")">> >> >>,
       <<<<"n", "h", "a", "t", " ", "b", "a", "n">>,
          << <<"N", "R", "T", " ", "(", "T", "o", "k", "y", "o", "/", "N", "a", "r", "i", "t", "a", ")">>,
             <<"H", "N", "D", " ", "(", "T", "o", "k", "y", "o", "/", "H", "a", "n", "e", "d", "a", ")">>,
             <<"K", "I", "X", " ", "(", "O", "s", "a", "k", "a", ")">>,
             <<"N", "G", "O", " ", "(", "N", "a", "g", "o", "y", "a", ")">> >> >>,
       <<<<"n", "h", "u1ead", "t">>,
          << <<"N", "R", "T", " ", "(", "T", "o", "k", "y", "o", "/", "N", "a", "r", "i", "t", "a", ")">>,
             <<"H", "N", "D", " ", "(", "T", "o", "k", "y", "o", "/", "H", "a", "n", "e", "d", "a", ")">>,
             <<"K", "I", "X", " ", "(", "O", "s", "a", "k", "a", ")">> >> >>,
       <<<<"n", "h", "a", "t">>,
          << <<"N", "R", "T", " ", "(", "T", "o", "k", "y", "o", "/", "N", "a", "r", "i", "t", "a", ")">>,
             <<"H", "N", "D", " ", "(", "T", "o", "k", "y", "o", "/", "H", "a", "n", "e", "d", "a", ")">>,
             <<"K", "I", "X", " ", "(", "O", "s", "a", "k", "a", ")">> >> >>,
       <<<<"t", "h", "u00e1", "i", " ", "l", "a", "n">>,
          << <<"B", "K", "K", " ", "(", "B", "a", "n", "g", "k", "o", "k", ")">>,
             <<"C", "N", "X", " ", "(", "C", "h", "i", "a", "n", "g", " ", "M", "a", "i", ")">>,
             <<"H", "K", "T", " ", "(", "P", "h", "u", "k", "e", "t", ")">> >> >>,
       <<<<"t", "h", "a", "i", " ", "l", "a", "n">>,
          << <<"B", "K", "K", " ", "(", "B", "a", "n", "g", "k", "o", "k", ")">>,
             <<"C", "N", "X", " ", "(", "C", "h", "i", "a", "n", "g", " ", "M", "a", "i", ")">>,
             <<"H", "K", "T", " ", "(", "P", "h", "u", "k", "e", "t", ")">> >> >>,
       <<<<"s", "i", "n", "g", "a", "p", "o", "r", "e">>,
          << <<"S", "I", "N", " ", "(", "S", "i", "n", "g", "a", "p", "o", "r", "e", " ", "C", "h", "a", "n", "g", "i", ")">> >> >>,
       <<<<"t", "r", "u", "n", "g", " ", "q", "u", "u1ed1", "c">>,
          << <<"P", "E", "K", " ", "(", "B", "e", "i", "j", "i", "n", "g", ")">>,
             <<"P", "V", "G", " ", "(", "S", "h", "a", "n", "g", "h", "a", "i", ")">>,
             <<"C", "A", "N", " ", "(", "G", "u", "a", "n", "g", "z", "h", "o", "u", ")">>,
             <<"S", "Z", "X", " ", "(", "S", "h", "e", "n", "z", "h", "e", "n", ")">> >> >>,
       <<<<"t", "r", "u", "n", "g", " ", "q", "u", "o", "c">>,
          << <<"P", "E", "K", " ", "(", "B", "e", "i", "j", "i", "n", "g", ")">>,
             <<"P", "V", "G", " ", "(", "S", "h", "a", "n", "g", "h", "a", "i", ")">>,
             <<"C", "A", "N", " ", "(", "G", "u", "a", "n", "g", "z", "h", "o", "u", ")">>,
             <<"S", "Z", "X", " ", "(", "S", "h", "e", "n", "z", "h", "e", "n", ")">> >> >>,
       <<<<"u0111", "u00e0", "i", " ", "l", "o", "a", "n">>,
          << <<"T", "P", "E", " ", "(", "T", "a", "i", "p", "e", "i", ")">>,
             <<"K", "H", "H", " ", "(", "K", "a", "o", "h", "s", "i", "u", "n", "g", ")">> >> >>,
       <<<<"d", "a", "i", " ", "l", "o", "a", "n">>,
          << <<"T", "P", "E", " ", "(", "T", "a", "i", "p", "e", "i", ")">>,
             <<"K", "H", "H", " ", "(", "K", "a", "o", "h", "s", "i", "u", "n", "g", ")">> >> >>,
       <<<<"m", "a", "l", "a", "y", "s", "i", "a">>,
          << <<"K", "U", "L", " ", "(", "K", "u", "a", "l", "a", " ", "L", "u", "m", "p", "u", "r", ")">>,
             <<"P", "E", "N", " ", "(", "P", "e", "n", "a", "n", "g", ")">> >> >>,
       <<<<"i", "n", "d", "o", "n", "e", "s", "i", "a">>,
          << <<"C", "G", "K", " ", "(", "J", "a", "k", "a", "r", "t", "a", ")">>,
             <<"D", "P", "S", " ", "(", "B", "a", "l", "i", ")">> >> >>,
       <<<<"u00fa", "c">>,
          << <<"S", "Y", "D", " ", "(", "S", "y", "d", "n", "e", "y", ")">>,
             <<"M", "E", "L", " ", "(", "M", "e", "l", "b", "o", "u", "r", "n", "e", ")">>,
             <<"B", "N", "E", " ", "(", "B", "r", "i", "s", "b", "a", "n", "e", ")">> >> >>,
       <<<<"u", "c">>,
          << <<"S", "Y", "D", " ", "(", "S", "y", "d", "n", "e", "y", ")">>,
             <<"M", "E", "L", " ", "(", "M", "e", "l", "b", "o", "u", "r", "n", "e", ")">>,
             <<"B", "N", "E", " ", "(", "B", "r", "i", "s", "b", "a", "n", "e", ")">> >> >>,
       <<<<"a", "u", "s", "t", "r", "a", "l", "i", "a">>,
          << <<"S", "Y", "D", " ", "(", "S", "y", "d", "n", "e", "y", ")">>,
             <<"M", "E", "L", " ", "(", "M", "e", "l", "b", "o", "u", "r", "n", "e", ")">>,
             <<"B", "N", "E", " ", "(", "B", "r", "i", "s", "b", "a", "n", "e", ")">> >> >>,
       <<<<"m", "u1ef9">>,
          << <<"L", "A", "X", " ", "(", "L", "o", "s", " ", "A", "n", "g", "e", "l", "e", "s", ")">>,
             <<"S", "F", "O", " ", "(", "S", "a", "n", " ", "F", "r", "a", "n", "c", "i", "s", "c", "o", ")">>,
             <<"J", "F", "K", " ", "(", "N", "e", "w", " ", "Y", "o", "r", "k", ")">> >> >>,
       <<<<"m", "y">>,
          << <<"L", "A", "X", " ", "(", "L", "o", "s", " ", "A", "n", "g", "e", "l", "e", "s", ")">>,
             <<"S", "F", "O", " ", "(", "S", "a", "n", " ", "F", "r", "a", "n", "c", "i", "s", "c", "o", ")">>,
             <<"J", "F", "K", " ", "(", "N", "e", "w", " ", "Y", "o", "r", "k", ")">> >> >>,
       <<<<"p", "h", "u00e1", "p">>,
          << <<"C", "D", "G", " ", "(", "P", "a", "r", "i", "s", ")">>,
             <<"N", "C", "E", " ", "(", "N", "i", "c", "e", ")">> >> >>,
       <<<<"p", "h", "a", "p">>,
          << <<"C", "D", "G", " ", "(", "P", "a", "r", "i", "s", ")">>,
             <<"N", "C", "E", " ", "(", "N", "i", "c", "e", ")">> >> >>,
       <<<<"a", "n", "h">>,
          << <<"L", "H", "R", " ", "(", "L", "o", "n", "d", "o", "n", " ", "H", "e", "a", "t", "h", "r", "o", "w", ")">>,
             <<"L", "G", "W", " ", "(", "L", "o", "n", "d", "o", "n", " ", "G", "a", "t", "w", "i", "c", "k", ")">> >> >> >>

\* the alternatives of route_pattern, in the order of the alternation
ROUTE_ABBREVS ==
    << <<"s", "g">>,
       <<"h", "n">>,
       <<"d", "n">>,
       <<"s", "g", "n">>,
       <<"h", "a", "n">>,
       <<"d", "a", "d">>,
       <<"h", "c", "m">> >>

\* abbrev_map
abbrev_map ==
    << <<<<"s", "g">>, <<"S", "G", "N">>>>,
       <<<<"s", "g", "n">>, <<"S", "G", "N">>>>,
       <<<<"h", "c", "m">>, <<"S", "G", "N">>>>,
       <<<<"h", "n">>, <<"H", "A", "N">>>>,
       <<<<"h", "a", "n">>, <<"H", "A", "N">>>>,
       <<<<"d", "n">>, <<"D", "A", "D">>>>,
       <<<<"d", "a", "d">>, <<"D", "A", "D">>>> >>

\* the alternatives of code_pattern
IATA_CODES ==
    << <<"S", "G", "N">>, <<"H", "A", "N">>, <<"D", "A", "D">>, <<"C", "X", "R">>,
       <<"P", "Q", "C">>, <<"D", "L", "I">>, <<"H", "U", "I">>, <<"H", "P", "H">>,
       <<"U", "I", "H">>, <<"V", "C", "A">>, <<"B", "M", "V">>, <<"B", "K", "K">>,
       <<"S", "I", "N">>, <<"I", "C", "N">>, <<"N", "R", "T">>, <<"K", "I", "X">>,
       <<"H", "K", "G">>, <<"T", "P", "E">>, <<"K", "U", "L">>, <<"M", "N", "L">>,
       <<"C", "G", "K">>, <<"D", "P", "S">>, <<"C", "D", "G">>, <<"L", "H", "R">>,
       <<"S", "Y", "D">>, <<"L", "A", "X">>, <<"J", "F", "K">>, <<"S", "F", "O">> >>

\* names the city scan skips
SKIPPED_NAMES ==
    << <<"h", "a", "n">>,
       <<"h", "u00e0", "n">>,
       <<"h", "n">>,
       <<"h", "c", "m">>,
       <<"u0111", "n">>,
       <<"s", "g">>,
       <<"d", "n">> >>

\* context words that mark an origin
ORIGIN_CONTEXT ==
    << <<"t", "u1eeb", " ">>,
       <<"t", "u", " ">>,
       <<"u0111", "i", " ", "t", "u1eeb">>,
       <<"d", "i", " ", "t", "u">>,
       <<"k", "h", "u1edf", "i", " ", "h", "u00e0", "n", "h">>,
       <<"x", "u", "u1ea5", "t", " ", "p", "h", "u00e1", "t">> >>

\* context words that mark a destination
DEST_CONTEXT ==
    << <<"u0111", "i", " ">>,
       <<"d", "i", " ">>,
       <<"u0111", "u1ebf", "n", " ">>,
       <<"d", "e", "n", " ">>,
       <<"t", "u1edb", "i", " ">>,
       <<"r", "a", " ">>,
       <<"v", "u00e0", "o", " ">> >>

\* relative_dates, as (keyword, days) pairs in the order of the dict; -1 stands
\* for the days to the next Saturday, computed from today
relative_dates ==
    << <<<<"h", "u00f4", "m", " ", "n", "a", "y">>, 0>>,
       <<<<"h", "o", "m", " ", "n", "a", "y">>, 0>>,
       <<<<"t", "o", "d", "a", "y">>, 0>>,
       <<<<"n", "g", "u00e0", "y", " ", "m", "a", "i">>, 1>>,
       <<<<"n", "g", "a", "y", " ", "m", "a", "i">>, 1>>,
       <<<<"m", "a", "i">>, 1>>,
       <<<<"t", "o", "m", "o", "r", "r", "o", "w">>, 1>>,
       <<<<"n", "g", "u00e0", "y", " ", "k", "i", "a">>, 2>>,
       <<<<"n", "g", "a", "y", " ", "k", "i", "a">>, 2>>,
       <<<<"m", "u1ed1", "t">>, 2>>,
       <<<<"m", "o", "t">>, 2>>,
       <<<<"t", "u", "u1ea7", "n", " ", "s", "a", "u">>, 7>>,
       <<<<"t", "u", "a", "n", " ", "s", "a", "u">>, 7>>,
       <<<<"n", "e", "x", "t", " ", "w", "e", "e", "k">>, 7>>,
       <<<<"c", "u", "u1ed1", "i", " ", "t", "u", "u1ea7", "n">>, -1>>,
       <<<<"c", "u", "o", "i", " ", "t", "u", "a", "n">>, -1>> >>

\* the alternatives after the number in the passenger pattern
PAX_WORDS ==
    << <<"n", "g", "u01b0", "u1edd", "i">>,
       <<"n", "g", "u", "o", "i">>,
       <<"k", "h", "u00e1", "c", "h">>,
       <<"k", "h", "a", "c", "h">>,
       <<"p", "a", "x">>,
       <<"n", "g", "u01b0", "u1edd", "i", " ", "l", "u1edb", "n">> >>

\* words that mark a round trip
ROUNDTRIP_WORDS ==
    << <<"k", "h", "u1ee9", " ", "h", "u1ed3", "i">>,
       <<"k", "h", "u", " ", "h", "o", "i">>,
       <<"r", "o", "u", "n", "d", "t", "r", "i", "p">>,
       <<"r", "o", "u", "n", "d", " ", "t", "r", "i", "p">>,
       <<"v", "u1ec1">> >>

\* one character of str.upper()
UpperChar(c) ==
    IF \E p \in LowerPairs : p[2] = c
    THEN (CHOOSE p \in LowerPairs : p[2] = c)[1]
    ELSE c

\* str.upper()
Upper(s) == [i \in 1..Len(s) |-> UpperChar(s[i])]

DigitChars == {"0", "1", "2", "3", "4", "5", "6", "7", "8", "9"}

\* the characters the regex class \w matches
WordChars ==
    UpperChars \cup {p[2] : p \in LowerPairs} \cup DigitChars \cup {"_"}

\* the characters the regex class \s matches
SpaceChars == {" ", "\t", "\n", "\r", "\f"}

\* the regex class [\s\-]
RouteSeparators == SpaceChars \cup {"-"}

\* the text t stands in s at position i
MatchAt(t, s, i) ==
    /\ i >= 1
    /\ i + Len(t) - 1 <= Len(s)
    /\ SubSeq(s, i, i + Len(t) - 1) = t

\* str.find, counted from 1: the first position of t in s, 0 when absent
Find(t, s) ==
    IF Contains(t, s)
    THEN CHOOSE i \in 1..Len(s) :
            /\ MatchAt(t, s, i)
            /\ \A j \in 1..(i - 1) : ~MatchAt(t, s, j)
    ELSE 0

\* s[-n:]
Tail_n(s, n) ==
    IF Len(s) <= n THEN s ELSE SubSeq(s, Len(s) - n + 1, Len(s))

\* the regex assertion \b before position i of s (i in 1..Len(s)+1)
WordBoundary(s, i) ==
    LET left  == i > 1 /\ s[i - 1] \in WordChars
        right == i <= Len(s) /\ s[i] \in WordChars
    IN  left # right

\* the position after the run of separators that starts at i
RECURSIVE SkipSeparators(_, _)
SkipSeparators(s, i) ==
    IF i <= Len(s) /\ s[i] \in RouteSeparators
    THEN SkipSeparators(s, i + 1)
    ELSE i

\* the first alternative of the route pattern, in the order of the
\* alternation, that stands at position i; 0 when none does
FirstAbbrevAt(s, i) ==
    IF \E k \in 1..Len(ROUTE_ABBREVS) : MatchAt(ROUTE_ABBREVS[k], s, i)
    THEN CHOOSE k \in 1..Len(ROUTE_ABBREVS) :
            /\ MatchAt(ROUTE_ABBREVS[k], s, i)
            /\ \A h \in 1..(k - 1) : ~MatchAt(ROUTE_ABBREVS[h], s, i)
    ELSE 0

\* the alternative k stands at i, at least one separator follows it, and
\* an alternative stands after the separators
RouteFrom(s, i, k) ==
    LET after == i + Len(ROUTE_ABBREVS[k])
    IN  /\ MatchAt(ROUTE_ABBREVS[k], s, i)
        /\ after <= Len(s)
        /\ s[after] \in RouteSeparators
        /\ FirstAbbrevAt(s, SkipSeparators(s, after)) # 0

\* abbrev_map.get
AbbrevCode(abbrev) ==
    IF \E k \in 1..Len(abbrev_map) : abbrev_map[k][1] = abbrev
    THEN (abbrev_map[CHOOSE k \in 1..Len(abbrev_map) : abbrev_map[k][1] = abbrev])[2]
    ELSE None

\* re.search(route_pattern, msg_lower): the two groups of the leftmost
\* match, the first group being the first alternative that lets the rest
\* of the pattern match; <<>> when there is no match
route_match(msg_lower) ==
    LET starts == {i \in 1..Len(msg_lower) :
                     \E k \in 1..Len(ROUTE_ABBREVS) : RouteFrom(msg_lower, i, k)}
    IN  IF starts = {} THEN <<>>
        ELSE LET i == CHOOSE a \in starts : \A b \in starts : a <= b
                 k == CHOOSE a \in 1..Len(ROUTE_ABBREVS) :
                        /\ RouteFrom(msg_lower, i, a)
                        /\ \A h \in 1..(a - 1) : ~RouteFrom(msg_lower, i, h)
                 j == SkipSeparators(msg_lower, i + Len(ROUTE_ABBREVS[k]))
             IN  << ROUTE_ABBREVS[k], ROUTE_ABBREVS[FirstAbbrevAt(msg_lower, j)] >>

\* an airport code of the pattern stands at i between two word boundaries
CodeAt(s, i) ==
    /\ \E k \in 1..Len(IATA_CODES) : MatchAt(IATA_CODES[k], s, i)
    /\ WordBoundary(s, i)
    /\ WordBoundary(s, i + 3)

\* re.findall(code_pattern, s): the codes in the order they stand in s
RECURSIVE find_codes(_, _)
find_codes(s, i) ==
    IF i > Len(s) THEN <<>>
    ELSE IF CodeAt(s, i) THEN <<SubSeq(s, i, i + 2)>> \o find_codes(s, i + 3)
    ELSE find_codes(s, i + 1)

\* the entries of AIRPORT_CODES the city scan finds in the text:
\* found_cities before the sort, as indices into the table
FoundCities(msg_lower) ==
    {k \in 1..Len(AIRPORT_CODES) :
        /\ \A h \in 1..Len(SKIPPED_NAMES) : AIRPORT_CODES[k][1] # SKIPPED_NAMES[h]
        /\ Contains(AIRPORT_CODES[k][1], msg_lower)}

\* found_cities.sort(key=position): by position in the text, entries at the
\* same position in the order of the table
RECURSIVE SortByPosition(_, _)
SortByPosition(msg_lower, found) ==
    IF found = {} THEN <<>>
    ELSE LET pos(k) == Find(AIRPORT_CODES[k][1], msg_lower)
             first == CHOOSE k \in found :
                        \A h \in found \ {k} :
                            \/ pos(k) < pos(h)
                            \/ pos(k) = pos(h) /\ k < h
         IN  <<first>> \o SortByPosition(msg_lower, found \ {first})

\* the loop over the sorted cities: each city fills the origin or the
\* destination according to the words before it
RECURSIVE assign_cities(_, _, _, _)
assign_cities(msg_lower, cities, n, route) ==
    IF n > Len(cities) THEN route
    ELSE LET idx  == Find(AIRPORT_CODES[cities[n]][1], msg_lower)
             code == AIRPORT_CODES[cities[n]][2]
             before == SubSeq(msg_lower, 1, idx - 1)
             is_origin == AnyIn(ORIGIN_CONTEXT, Tail_n(before, 15))
             is_dest == AnyIn(DEST_CONTEXT, Tail_n(before, 10))
             next ==
                IF is_origin /\ route.origin = None
                    THEN [route EXCEPT !.origin = code]
                ELSE IF is_dest /\ route.destination = None
                    THEN [route EXCEPT !.destination = code]
                ELSE IF route.origin = None
                    THEN [route EXCEPT !.origin = code]
                ELSE IF route.destination = None
                    THEN [route EXCEPT !.destination = code]
                ELSE route
         IN  assign_cities(msg_lower, cities, n + 1, next)

\* PRIORITY 0: the route pattern
route_by_pattern(msg_lower) ==
    LET groups == route_match(msg_lower)
    IN  IF groups # <<>>
            /\ AbbrevCode(groups[1]) # None /\ AbbrevCode(groups[2]) # None
        THEN [origin |-> AbbrevCode(groups[1]), destination |-> AbbrevCode(groups[2])]
        ELSE [origin |-> None, destination |-> None]

\* the airport-code rule applied whether or not the route is already known
route_by_codes_overriding(message, route) ==
    LET codes == find_codes(Upper(message), 1)
    IN  IF Len(codes) >= 2
           THEN [origin |-> codes[1], destination |-> codes[2]]
        ELSE IF Len(codes) = 1
           THEN IF route.origin = None
                   THEN [route EXCEPT !.origin = codes[1]]
                ELSE IF route.destination = None
                   THEN [route EXCEPT !.destination = codes[1]]
                ELSE route
        ELSE route

\* PRIORITY 1: airport codes in the upper-cased message
route_by_codes(message, route) ==
    IF route.origin # None /\ route.destination # None THEN route
    ELSE LET codes == find_codes(Upper(message), 1)
         IN  IF Len(codes) >= 2
                THEN [origin |-> codes[1], destination |-> codes[2]]
             ELSE IF Len(codes) = 1
                THEN IF route.origin = None
                        THEN [route EXCEPT !.origin = codes[1]]
                     ELSE IF route.destination = None
                        THEN [route EXCEPT !.destination = codes[1]]
                     ELSE route
             ELSE route

\* PRIORITY 2: city names
route_by_cities(msg_lower, route) ==
    IF route.origin # None /\ route.destination # None THEN route
    ELSE assign_cities(msg_lower,
                       SortByPosition(msg_lower, FoundCities(msg_lower)), 1, route)

\* PRIORITY 3: the countries named in the text, in the order of
\* COUNTRY_AIRPORTS, when no destination was found
RECURSIVE countries_in(_, _)
countries_in(msg_lower, k) ==
    IF k > Len(COUNTRY_AIRPORTS) THEN <<>>
    ELSE (IF Contains(COUNTRY_AIRPORTS[k][1], msg_lower)
          THEN << [country |-> COUNTRY_AIRPORTS[k][1],
                   airports |-> COUNTRY_AIRPORTS[k][2]] >>
          ELSE <<>>)
         \o countries_in(msg_lower, k + 1)

\* the origin and destination the extractor resolves
extract_route(message) ==
    route_by_cities(Lower(message),
        route_by_codes(message, route_by_pattern(Lower(message))))

(***************************************************************************)
(* Dates: a date is a record [year, month, day]; a formatted date is text  *)
(***************************************************************************)

IsLeap(y) == (y % 4 = 0 /\ y % 100 # 0) \/ y % 400 = 0

DaysInMonth(y, m) ==
    IF m = 2 THEN (IF IsLeap(y) THEN 29 ELSE 28)
    ELSE IF m \in {4, 6, 9, 11} THEN 30
    ELSE 31

\* datetime(year, month, day) accepts the arguments
ValidDate(y, m, d) ==
    /\ y \in 1..9999
    /\ m \in 1..12
    /\ d >= 1 /\ d <= DaysInMonth(y, m)

\* date + timedelta(days=1)
NextDay(date) ==
    IF date.day < DaysInMonth(date.year, date.month)
        THEN [date EXCEPT !.day = @ + 1]
    ELSE IF date.month < 12
        THEN [date EXCEPT !.month = @ + 1, !.day = 1]
    ELSE [year |-> date.year + 1, month |-> 1, day |-> 1]

\* date + timedelta(days=n)
RECURSIVE AddDays(_, _)
AddDays(date, n) == IF n = 0 THEN date ELSE AddDays(NextDay(date), n - 1)

\* days from 1970-01-01 to the date
DayNumber(date) ==
    LET y   == IF date.month <= 2 THEN date.year - 1 ELSE date.year
        era == y \div 400
        yoe == y - era * 400
        mp  == (date.month + 9) % 12
        doy == (153 * mp + 2) \div 5 + date.day - 1
        doe == yoe * 365 + yoe \div 4 - yoe \div 100 + doy
    IN  era * 146097 + doe - 719468

\* datetime.weekday(): Monday is 0
Weekday(date) == (DayNumber(date) + 3) % 7

\* target < today for a target at midnight and a today later in its day
Before(target, today) ==
    \/ target.year < today.year
    \/ target.year = today.year /\ target.month < today.month
    \/ target.year = today.year /\ target.month = today.month
        /\ target.day <= today.day

DigitOf(n) ==
    <<"0", "1", "2", "3", "4", "5", "6", "7", "8", "9">>[n + 1]

\* the decimal digits of n, at least `width` of them ("%02d", "%04d")
RECURSIVE Decimal(_, _)
Decimal(n, width) ==
    IF n < 10 /\ width <= 1 THEN <<DigitOf(n)>>
    ELSE Append(Decimal(n \div 10, width - 1), DigitOf(n % 10))

\* int() of a run of digits
RECURSIVE ToInt(_)
ToInt(digits) ==
    IF digits = <<>> THEN 0
    ELSE 10 * ToInt(SubSeq(digits, 1, Len(digits) - 1))
         + (CHOOSE n \in 0..9 : DigitOf(n) = digits[Len(digits)])

\* str.zfill(2) of a run of one or two digits
zfill2(digits) == IF Len(digits) < 2 THEN <<"0">> \o digits ELSE digits

\* strftime("%Y-%m-%d")
strftime(date) ==
    Decimal(date.year, 4) \o <<"-">> \o Decimal(date.month, 2)
        \o <<"-">> \o Decimal(date.day, 2)

\* the days from today to the coming Saturday: (5 - weekday) % 7 or 7
DaysToSaturday(today) ==
    LET d == (5 - Weekday(today)) % 7
    IN  IF d = 0 THEN 7 ELSE d

\* the first keyword of relative_dates, in the order of the dict, that the
\* text holds; 0 when none
FirstRelativeDate(msg_lower) ==
    IF \E k \in 1..Len(relative_dates) : Contains(relative_dates[k][1], msg_lower)
    THEN CHOOSE k \in 1..Len(relative_dates) :
            /\ Contains(relative_dates[k][1], msg_lower)
            /\ \A h \in 1..(k - 1) : ~Contains(relative_dates[h][1], msg_lower)
    ELSE 0

\* the offset of entry k of relative_dates
days_offset(k, today) ==
    IF relative_dates[k][2] = -1 THEN DaysToSaturday(today)
    ELSE relative_dates[k][2]

\* the regex class [/-]
DateSeparators == {"/", "-"}

\* n digits stand in s from position i
DigitsAt(s, i, n) ==
    /\ i >= 1
    /\ i + n - 1 <= Len(s)
    /\ \A k \in i..(i + n - 1) : s[k] \in DigitChars

\* groups of digits of the given lengths, one separator between two
\* groups, stand in s from position i
RECURSIVE GroupsAt(_, _, _)
GroupsAt(s, i, lens) ==
    IF lens = <<>> THEN TRUE
    ELSE /\ DigitsAt(s, i, lens[1])
         /\ \/ Len(lens) = 1
            \/ /\ i + lens[1] <= Len(s)
               /\ s[i + lens[1]] \in DateSeparators
               /\ GroupsAt(s, i + lens[1] + 1, Tail(lens))

\* the groups of a match that starts at i with the given lengths
RECURSIVE GroupsOf(_, _, _)
GroupsOf(s, i, lens) ==
    IF lens = <<>> THEN <<>>
    ELSE <<SubSeq(s, i, i + lens[1] - 1)>>
         \o GroupsOf(s, i + lens[1] + 1, Tail(lens))

\* the group lengths a date pattern can match with, in the order the
\* greedy quantifiers try them
DayMonthYear == << <<2, 2, 4>>, <<2, 1, 4>>, <<1, 2, 4>>, <<1, 1, 4>> >>
YearMonthDay == << <<4, 2, 2>>, <<4, 2, 1>>, <<4, 1, 2>>, <<4, 1, 1>> >>
DayMonth     == << <<2, 2>>, <<2, 1>>, <<1, 2>>, <<1, 1>> >>

\* the first of the shapes that matches at i; 0 when none does
ShapeAt(s, i, shapes) ==
    IF \E k \in 1..Len(shapes) : GroupsAt(s, i, shapes[k])
    THEN CHOOSE k \in 1..Len(shapes) :
            /\ GroupsAt(s, i, shapes[k])
            /\ \A h \in 1..(k - 1) : ~GroupsAt(s, i, shapes[h])
    ELSE 0

\* re.search of a date pattern: the groups of the leftmost match, <<>>
\* when there is none
date_search(s, shapes) ==
    LET starts == {i \in 1..Len(s) : ShapeAt(s, i, shapes) # 0}
    IN  IF starts = {} THEN <<>>
        ELSE LET i == CHOOSE a \in starts : \A b \in starts : a <= b
             IN  GroupsOf(s, i, shapes[ShapeAt(s, i, shapes)])

\* the position after the run of whitespace that starts at i
RECURSIVE SkipSpaces(_, _)
SkipSpaces(s, i) ==
    IF i <= Len(s) /\ s[i] \in SpaceChars THEN SkipSpaces(s, i + 1) ELSE i

NGAY == <<"n", "g", "u00e0", "y">>

\* re.search of the third date pattern: the word, whitespace, then a
\* day/month/year date
date_search_after_word(s) ==
    LET starts == {i \in 1..Len(s) :
                     /\ MatchAt(NGAY, s, i)
                     /\ ShapeAt(s, SkipSpaces(s, i + Len(NGAY)), DayMonthYear) # 0}
    IN  IF starts = {} THEN <<>>
        ELSE LET i == CHOOSE a \in starts : \A b \in starts : a <= b
                 j == SkipSpaces(s, i + Len(NGAY))
             IN  GroupsOf(s, j, DayMonthYear[ShapeAt(s, j, DayMonthYear)])

\* what the raising of ValueError leaves in place of a date
ValueError == <<"ValueError">>

\* the DD/MM branch: the date in the current year, or in the next year
\* when it is not after today; datetime() raises on an impossible date
day_month_date(groups, today) ==
    LET month == ToInt(groups[2])
        day   == ToInt(groups[1])
    IN  IF ~ValidDate(today.year, month, day) THEN ValueError
        ELSE IF Before([year |-> today.year, month |-> month, day |-> day], today)
            THEN IF ValidDate(today.year + 1, month, day)
                 THEN strftime([year |-> today.year + 1, month |-> month, day |-> day])
                 ELSE ValueError
        ELSE strftime([year |-> today.year, month |-> month, day |-> day])

\* the loop over date_patterns with the DD/MM pattern tried first
explicit_date_day_month_first(message, today) ==
    LET dmy  == date_search(message, DayMonthYear)
        ymd  == date_search(message, YearMonthDay)
        ndmy == date_search_after_word(message)
        dm   == date_search(message, DayMonth)
    IN  IF dm # <<>> THEN day_month_date(dm, today)
        ELSE IF dmy # <<>>
            THEN dmy[3] \o <<"-">> \o zfill2(dmy[2]) \o <<"-">> \o zfill2(dmy[1])
        ELSE IF ymd # <<>>
            THEN ymd[1] \o <<"-">> \o zfill2(ymd[2]) \o <<"-">> \o zfill2(ymd[3])
        ELSE IF ndmy # <<>>
            THEN ndmy[3] \o <<"-">> \o zfill2(ndmy[2]) \o <<"-">> \o zfill2(ndmy[1])
        ELSE None

\* the loop over date_patterns: the first pattern that matches decides
explicit_date(message, today) ==
    LET dmy  == date_search(message, DayMonthYear)
        ymd  == date_search(message, YearMonthDay)
        ndmy == date_search_after_word(message)
        dm   == date_search(message, DayMonth)
    IN  IF dmy # <<>>
            THEN dmy[3] \o <<"-">> \o zfill2(dmy[2]) \o <<"-">> \o zfill2(dmy[1])
        ELSE IF ymd # <<>>
            THEN ymd[1] \o <<"-">> \o zfill2(ymd[2]) \o <<"-">> \o zfill2(ymd[3])
        ELSE IF ndmy # <<>>
            THEN ndmy[3] \o <<"-">> \o zfill2(ndmy[2]) \o <<"-">> \o zfill2(ndmy[1])
        ELSE IF dm # <<>> THEN day_month_date(dm, today)
        ELSE None

\* the departure date with the explicit patterns tried before the
\* relative keywords
extract_date_explicit_first(message, today) ==
    LET k == FirstRelativeDate(Lower(message))
    IN  IF explicit_date(message, today) # None THEN explicit_date(message, today)
        ELSE IF k # 0 THEN strftime(AddDays(today, days_offset(k, today)))
        ELSE None

\* the departure date: a relative keyword first, an explicit date otherwise
extract_date(message, today) ==
    LET k == FirstRelativeDate(Lower(message))
    IN  IF k # 0 THEN strftime(AddDays(today, days_offset(k, today)))
        ELSE explicit_date(message, today)

\* a maximal run of digits starts at i
RunStartsAt(s, i) ==
    /\ i <= Len(s) /\ s[i] \in DigitChars
    /\ i = 1 \/ s[i - 1] \notin DigitChars

\* the position after the run of digits that starts at i
RECURSIVE SkipDigits(_, _)
SkipDigits(s, i) ==
    IF i <= Len(s) /\ s[i] \in DigitChars THEN SkipDigits(s, i + 1) ELSE i

\* a passenger word stands after the digits at i and the whitespace
\* that follows them
PaxAt(s, i) ==
    /\ RunStartsAt(s, i)
    /\ \E k \in 1..Len(PAX_WORDS) :
          MatchAt(PAX_WORDS[k], s, SkipSpaces(s, SkipDigits(s, i)))

\* the passenger pattern: the number of the leftmost match, 1 without one
extract_adults(msg_lower) ==
    LET starts == {i \in 1..Len(msg_lower) : PaxAt(msg_lower, i)}
    IN  IF starts = {} THEN 1
        ELSE LET i == CHOOSE a \in starts : \A b \in starts : a <= b
             IN  ToInt(SubSeq(msg_lower, i, SkipDigits(msg_lower, i) - 1))

\* extract_flight_params: the params dict, an absent key being None (the
\* empty list for country_suggestions); raised is set when the call ends
\* with ValueError instead of returning
extract_flight_params(message, today) ==
    LET msg_lower == Lower(message)
        route == extract_route(message)
        date == extract_date(message, today)
    IN  [ raised |-> date = ValueError,
          origin |-> route.origin,
          destination |-> route.destination,
          country_suggestions |->
              IF route.destination = None THEN countries_in(msg_lower, 1) ELSE <<>>,
          departure_date |-> date,
          adults |-> extract_adults(msg_lower),
          search_type |->
              IF AnyIn(ROUNDTRIP_WORDS, msg_lower) THEN "roundtrip" ELSE "oneway" ]

(***************************************************************************)
(* Multi-source search aggregator                                          *)
(***************************************************************************)

\* API_SOURCES
API_SOURCES == <<"F1", "F10", "VJ">>

Sources == {API_SOURCES[i] : i \in 1..Len(API_SOURCES)}

\* the display page size compared with the merged count for has_more
PageSize == 10

\* what awaiting one search_single_source task gives asyncio.gather
PendingTask == [kind |-> "pending", success |-> FALSE, source |-> "", flights |-> <<>>]

\* the exception object gather(return_exceptions=True) puts in the task's place
RaisedTask(source) ==
    [kind |-> "exception", success |-> FALSE, source |-> source, flights |-> <<>>]

\* the flight dicts search_single_source builds from result.flights, each
\* marked with the source that was asked
mark_flights(source, flights) ==
    [i \in 1..Len(flights) |->
        [id |-> flights[i].id, source |-> source, total_price |-> flights[i].total_price]]

\* the dict search_single_source returns after a search that did not raise
success_result(source, flights) ==
    [kind |-> "dict", success |-> TRUE, source |-> source,
     flights |-> mark_flights(source, flights)]

\* the dict search_single_source returns from its except branch
failure_result(source) ==
    [kind |-> "dict", success |-> FALSE, source |-> source, flights |-> <<>>]

\* a gather that hands the results over in the order the tasks finished
gather_in_completion_order(task_out, completed) ==
    [i \in 1..Len(API_SOURCES) |-> task_out[completed[i]]]

\* results of asyncio.gather(*tasks): one entry per task, in the order of
\* tasks (API_SOURCES), whatever order they finished in
gather(task_out, completed) ==
    [i \in 1..Len(API_SOURCES) |-> task_out[API_SOURCES[i]]]

\* list.sort(key=total_price) inserts each element after the elements that
\* do not compare greater: ascending and stable
InsertByPrice(sorted, f) ==
    LET k == Cardinality({i \in 1..Len(sorted) : sorted[i].total_price <= f.total_price})
    IN  SubSeq(sorted, 1, k) \o <<f>> \o SubSeq(sorted, k + 1, Len(sorted))

RECURSIVE SortPrefix(_, _)
\* the first n elements in sorted order; the sorted shorter prefix is
\* computed once and the next element inserted into it
SortPrefix(flights, n) ==
    IF n = 0 THEN <<>>
    ELSE CHOOSE result \in {InsertByPrice(sorted, flights[n]) :
                                sorted \in {SortPrefix(flights, n - 1)}} : TRUE

sort_unsorted(flights) == flights

sort_by_price(flights) == SortPrefix(flights, Len(flights))

RECURSIVE merge_loop(_, _, _)
\* the `for result in results` loop: acc holds all_flights,
\* successful_sources and failed_sources after the first n results
merge_loop(results, n, acc) ==
    IF n > Len(results) THEN acc
    ELSE LET result == results[n]
         IN  IF result.kind = "exception" THEN merge_loop(results, n + 1, acc)
             ELSE IF result.success
             THEN merge_loop(results, n + 1,
                    [acc EXCEPT !.all_flights = @ \o result.flights,
                                !.successful = Append(@, result.source)])
             ELSE merge_loop(results, n + 1,
                    [acc EXCEPT !.failed = Append(@, result.source)])

\* the dict of search_all_sources if success told whether a source answered
merge_results_success_by_source(results) ==
    LET acc == merge_loop(results, 1,
                  [all_flights |-> <<>>, successful |-> <<>>, failed |-> <<>>])
        all_flights == sort_by_price(acc.all_flights)
    IN  [ success |-> acc.successful # <<>>,
          flights |-> all_flights,
          total_results |-> Len(all_flights),
          has_more |-> Len(all_flights) > PageSize,
          sources |-> [successful |-> acc.successful, failed |-> acc.failed] ]

\* the dict search_all_sources returns, from the gathered results
merge_results(results) ==
    LET acc == merge_loop(results, 1,
                  [all_flights |-> <<>>, successful |-> <<>>, failed |-> <<>>])
        all_flights == sort_by_price(acc.all_flights)
    IN  [ success |-> Len(all_flights) > 0,
          flights |-> all_flights,
          total_results |-> Len(all_flights),
          has_more |-> Len(all_flights) > PageSize,
          sources |-> [successful |-> acc.successful, failed |-> acc.failed] ]

\* format_flight_results(search_result, params): which text the user gets.
\* "search_failed" is the try-again-later message, "no_flights" the
\* nothing-found message, "results" the list of the first PageSize offers
\* with the failed sources in the footer.
format_flight_results(search_result, params) ==
    IF ~search_result.success
    THEN [text |-> "search_failed", shown |-> <<>>, failed |-> <<>>]
    ELSE IF search_result.flights = <<>>
    THEN [text |-> "no_flights", shown |-> <<>>, failed |-> <<>>]
    ELSE [text |-> "results",
          shown |-> SubSeq(search_result.flights, 1,
                           IF Len(search_result.flights) < PageSize
                           THEN Len(search_result.flights) ELSE PageSize),
          failed |-> search_result.sources.failed]

NoResult ==
    [ success |-> FALSE, flights |-> <<>>, total_results |-> -1, has_more |-> FALSE,
      sources |-> [successful |-> <<>>, failed |-> <<>>] ]

(***************************************************************************)
(* Capability table                                                        *)
(***************************************************************************)

AVAILABLE == "available"
NOT_IMPLEMENTED == "not_implemented"

\* the shipped table with an entry for the ticketing handler's id
ShippedCapabilities_with_ticketing ==
    [ flight_search_oneway |-> AVAILABLE,
      flight_search_roundtrip |-> AVAILABLE,
      flight_search_multicity |-> AVAILABLE,
      price_by_month |-> NOT_IMPLEMENTED,
      booking_lookup |-> NOT_IMPLEMENTED,
      booking_create |-> NOT_IMPLEMENTED,
      baggage_policy |-> NOT_IMPLEMENTED,
      refund_policy |-> NOT_IMPLEMENTED,
      general_chat |-> AVAILABLE,
      ticketing |-> AVAILABLE ]

\* CAPABILITIES as shipped: capability id |-> status
ShippedCapabilities ==
    [ flight_search_oneway |-> AVAILABLE,
      flight_search_roundtrip |-> AVAILABLE,
      flight_search_multicity |-> AVAILABLE,
      price_by_month |-> NOT_IMPLEMENTED,
      booking_lookup |-> NOT_IMPLEMENTED,
      booking_create |-> NOT_IMPLEMENTED,
      baggage_policy |-> NOT_IMPLEMENTED,
      refund_policy |-> NOT_IMPLEMENTED,
      general_chat |-> AVAILABLE ]

\* the capability ids the handlers ask for that the shipped table lacks
HandlerCapabilities == {"ticketing", "pnr_management", "ancillary"}

\* a table in which every capability is entered and available
EnabledCapabilities ==
    [id \in (DOMAIN ShippedCapabilities) \cup HandlerCapabilities |-> AVAILABLE]

\* the shipped table with one-way search switched off
GroundedCapabilities ==
    [ShippedCapabilities EXCEPT !.flight_search_oneway = NOT_IMPLEMENTED]

\* the tables a deployment runs with
CapabilityTables ==
    {ShippedCapabilities, EnabledCapabilities, GroundedCapabilities}

\* is_capability_available(capability_id) against the table
is_capability_available(table, capability_id) ==
    capability_id \in DOMAIN table /\ table[capability_id] = AVAILABLE

(***************************************************************************)
(* Agent state                                                             *)
(***************************************************************************)

\* Python's None in a field that holds a name
Unset == "None"

\* FlightSearchResult() with every field at its default
DefaultFlightSearchResult ==
    [ search_id |-> None, flights |-> <<>>, total_results |-> 0,
      has_more |-> FALSE ]

HumanMessage(content) == [role |-> "human", content |-> content]
AIMessage(content) == [role |-> "ai", content |-> content]

\* AgentState(messages=..., session_id=...), the other fields at their
\* defaults
NewAgentState(messages, session_id) ==
    [ messages |-> messages,
      current_agent |-> "supervisor",
      next_agent |-> Unset,
      intent |-> Unset,
      flight_search |-> DefaultFlightSearchParams,
      flight_results |-> DefaultFlightSearchResult,
      session_id |-> session_id,
      error |-> FALSE ]

(***************************************************************************)
(* Keyword lists and patterns of the handlers                              *)
(***************************************************************************)

\* the words that mark a booking lookup (booking_agent.py line 116)
pnr_keywords ==
    << <<"p", "n", "r">>,
       <<"b", "o", "o", "k", "i", "n", "g">>,
       <<"m", "u00e3", " ", "u0111", "u1eb7", "t">>,
       <<"t", "r", "a", " ", "c", "u1ee9", "u">>,
       <<"k", "i", "u1ec3", "m", " ", "t", "r", "a">> >>

\* BAGGAGE_KEYWORDS (chat_agent.py line 19)
BAGGAGE_KEYWORDS ==
    << <<"h", "u00e0", "n", "h", " ", "l", "u00fd">>,
       <<"h", "a", "n", "h", " ", "l", "y">>,
       <<"b", "a", "g", "g", "a", "g", "e">>,
       <<"l", "u", "g", "g", "a", "g", "e">>,
       <<"k", "u00fd", " ", "g", "u1eed", "i">>,
       <<"k", "y", " ", "g", "u", "i">>,
       <<"x", "u00e1", "c", "h", " ", "t", "a", "y">>,
       <<"x", "a", "c", "h", " ", "t", "a", "y">>,
       <<"k", "g">>,
       <<"c", "u00e2", "n">> >>

\* REFUND_KEYWORDS (chat_agent.py line 20)
REFUND_KEYWORDS ==
    << <<"h", "o", "u00e0", "n", " ", "v", "u00e9">>,
       <<"h", "o", "a", "n", " ", "v", "e">>,
       <<"u0111", "u1ed5", "i", " ", "v", "u00e9">>,
       <<"d", "o", "i", " ", "v", "e">>,
       <<"r", "e", "f", "u", "n", "d">>,
       <<"h", "u1ee7", "y", " ", "v", "u00e9">>,
       <<"h", "u", "y", " ", "v", "e">>,
       <<"u0111", "u1ed5", "i", " ", "n", "g", "u00e0", "y">>,
       <<"d", "o", "i", " ", "n", "g", "a", "y">> >>

\* issue a ticket (ticketing_agent.py line 47)
ISSUE_WORDS ==
    << <<"x", "u", "u1ea5", "t", " ", "v", "u00e9">>,
       <<"i", "s", "s", "u", "e">>,
       <<"p", "h", "u00e1", "t", " ", "v", "u00e9">> >>

\* void a ticket (ticketing_agent.py line 84)
VOID_WORDS ==
    << <<"v", "o", "i", "d">>,
       <<"h", "o", "u00e0", "n">>,
       <<"h", "u1ee7", "y", " ", "v", "u00e9">> >>

\* reissue a ticket (ticketing_agent.py line 123)
REISSUE_WORDS ==
    << <<"u0111", "u1ed5", "i", " ", "v", "u00e9">>,
       <<"r", "e", "i", "s", "s", "u", "e">>,
       <<"t", "h", "a", "y", " ", "u0111", "u1ed5", "i">> >>

\* ticket status (ticketing_agent.py line 136)
STATUS_WORDS ==
    << <<"k", "i", "u1ec3", "m", " ", "t", "r", "a">>,
       <<"t", "r", "u1ea1", "n", "g", " ", "t", "h", "u00e1", "i">>,
       <<"s", "t", "a", "t", "u", "s">> >>

\* refund a ticket (ticketing_agent.py line 168)
REFUND_WORDS ==
    << <<"r", "e", "f", "u", "n", "d">>,
       <<"h", "o", "u00e0", "n", " ", "t", "i", "u1ec1", "n">> >>

\* retrieve a PNR (pnr_agent.py line 116)
RETRIEVE_WORDS ==
    << <<"t", "r", "a", " ", "c", "u1ee9", "u">>,
       <<"x", "e", "m">>,
       <<"k", "i", "u1ec3", "m", " ", "t", "r", "a">>,
       <<"r", "e", "t", "r", "i", "e", "v", "e">> >>

\* cancel a PNR or a segment (pnr_agent.py line 133)
CANCEL_WORDS ==
    << <<"h", "u1ee7", "y">>,
       <<"c", "a", "n", "c", "e", "l">> >>

\* the cancellation is of a segment (pnr_agent.py line 134)
SEGMENT_WORDS ==
    << <<"c", "h", "u1eb7", "n", "g">>,
       <<"s", "e", "g", "m", "e", "n", "t">> >>

\* change the flight (pnr_agent.py line 172)
CHANGE_FLIGHT_WORDS ==
    << <<"u0111", "u1ed5", "i", " ", "c", "h", "u", "y", "u1ebf", "n">>,
       <<"c", "h", "a", "n", "g", "e", " ", "f", "l", "i", "g", "h", "t">>,
       <<"t", "h", "a", "y", " ", "u0111", "u1ed5", "i", " ", "c", "h", "u", "y", "u1ebf", "n">> >>

\* update the PNR (pnr_agent.py line 188)
UPDATE_WORDS ==
    << <<"c", "u1ead", "p", " ", "n", "h", "u1ead", "t">>,
       <<"u", "p", "d", "a", "t", "e">>,
       <<"s", "u1eed", "a">> >>

\* the update is of the contact (pnr_agent.py line 189)
CONTACT_WORDS ==
    << <<"e", "m", "a", "i", "l">>,
       <<"p", "h", "o", "n", "e">>,
       <<"l", "i", "u00ea", "n", " ", "h", "u1ec7">> >>

\* add a frequent flyer number (pnr_agent.py line 217)
FREQUENT_FLYER_WORDS ==
    << <<"t", "h", "u1ebb", " ", "t", "h", "u00e0", "n", "h", " ", "v", "i", "u00ea", "n">>,
       <<"f", "r", "e", "q", "u", "e", "n", "t", " ", "f", "l", "y", "e", "r">>,
       <<"f", "f">>,
       <<"f", "f", "n">> >>

\* special service requests (pnr_agent.py line 251)
SSR_WORDS ==
    << <<"s", "s", "r">>,
       <<"d", "u1ecb", "c", "h", " ", "v", "u1ee5", " ", "u0111", "u1eb7", "c", " ", "b", "i", "u1ec7", "t">>,
       <<"w", "h", "e", "e", "l", "c", "h", "a", "i", "r">>,
       <<"m", "e", "a", "l">> >>

\* the history of the PNR (pnr_agent.py line 270)
HISTORY_WORDS ==
    << <<"l", "u1ecb", "c", "h", " ", "s", "u1eed">>,
       <<"h", "i", "s", "t", "o", "r", "y">>,
       <<"c", "h", "a", "n", "g", "e", "l", "o", "g">> >>

\* seats (ancillary_agent.py line 107)
SEAT_WORDS ==
    << <<"g", "h", "u1ebf">>,
       <<"s", "e", "a", "t">>,
       <<"c", "h", "u1ed7", " ", "n", "g", "u1ed3", "i">> >>

\* show the seat map (ancillary_agent.py line 108)
SEAT_MAP_WORDS ==
    << <<"x", "e", "m">>,
       <<"s", "u01a1", " ", "u0111", "u1ed3">>,
       <<"m", "a", "p">> >>

\* select a seat (ancillary_agent.py line 127)
SEAT_SELECT_WORDS ==
    << <<"c", "h", "u1ecd", "n">>,
       <<"u0111", "u1eb7", "t">>,
       <<"s", "e", "l", "e", "c", "t">> >>

\* baggage (ancillary_agent.py line 165)
BAGGAGE_WORDS ==
    << <<"h", "u00e0", "n", "h", " ", "l", "u00fd">>,
       <<"b", "a", "g", "g", "a", "g", "e">>,
       <<"v", "a", "l", "i">>,
       <<"t", "u00fa", "i">> >>

\* show the baggage options (ancillary_agent.py line 166)
BAGGAGE_OPTION_WORDS ==
    << <<"x", "e", "m">>,
       <<"g", "i", "u00e1">>,
       <<"o", "p", "t", "i", "o", "n">> >>

\* add baggage (ancillary_agent.py line 184)
BAGGAGE_ADD_WORDS ==
    << <<"m", "u", "a">>,
       <<"t", "h", "u00ea", "m">>,
       <<"a", "d", "d">> >>

\* meals (ancillary_agent.py line 220)
MEAL_WORDS ==
    << <<"u0103", "n">>,
       <<"m", "e", "a", "l">>,
       <<"s", "u", "u1ea5", "t", " ", "u0103", "n">>,
       <<"u0111", "u1ed3", " ", "u0103", "n">> >>

\* show the meal options (ancillary_agent.py line 221)
MEAL_OPTION_WORDS ==
    << <<"x", "e", "m">>,
       <<"o", "p", "t", "i", "o", "n">> >>

\* order a special meal (ancillary_agent.py line 245)
MEAL_ORDER_WORDS ==
    << <<"u0111", "u1eb7", "t">>,
       <<"c", "h", "u1ecd", "n">> >>

\* meal_codes (ancillary_agent.py line 247)
meal_codes ==
    << <<"V", "G", "M", "L">>,
       <<"A", "V", "M", "L">>,
       <<"H", "N", "M", "L">>,
       <<"M", "O", "M", "L">>,
       <<"D", "B", "M", "L">>,
       <<"G", "F", "M", "L">>,
       <<"K", "S", "M", "L">>,
       <<"C", "H", "M", "L">> >>

AsciiUpper ==
    {"A", "B", "C", "D", "E", "F", "G", "H", "I", "J", "K", "L", "M",
     "N", "O", "P", "Q", "R", "S", "T", "U", "V", "W", "X", "Y", "Z"}

\* n characters of the class stand in s from position i
ClassAt(s, i, n, class) ==
    /\ i >= 1
    /\ i + n - 1 <= Len(s)
    /\ \A k \in i..(i + n - 1) : s[k] \in class

\* re.search(r'\b[A-Z0-9]{6}\b', content) finds a booking code
has_pnr_code(content) ==
    \E i \in 1..Len(content) :
        /\ ClassAt(content, i, 6, AsciiUpper \cup DigitChars)
        /\ WordBoundary(content, i)
        /\ WordBoundary(content, i + 6)

\* re.search(r'\b\d{13}\b', content) finds a ticket number
has_ticket_number(content) ==
    \E i \in 1..Len(content) :
        /\ DigitsAt(content, i, 13)
        /\ WordBoundary(content, i)
        /\ WordBoundary(content, i + 13)

\* re.search(r'\b(\d{1,2}[A-K])\b', content.upper()) finds a seat number
has_seat_number(content) ==
    LET s == Upper(content)
        rows == {"A", "B", "C", "D", "E", "F", "G", "H", "I", "J", "K"}
    IN  \E i \in 1..Len(s) : \E n \in {1, 2} :
            /\ DigitsAt(s, i, n)
            /\ ClassAt(s, i + n, 1, rows)
            /\ WordBoundary(s, i)
            /\ WordBoundary(s, i + n + 1)

\* re.search(r'[\w\.-]+@[\w\.-]+', content) finds an e-mail address
has_email(content) ==
    \E i \in 2..(Len(content) - 1) :
        /\ content[i] = "@"
        /\ content[i - 1] \in WordChars \cup {".", "-"}
        /\ content[i + 1] \in WordChars \cup {".", "-"}

\* re.search(r'[\d\s\+\-]{8,15}', content) finds a phone number
has_phone(content) ==
    \E i \in 1..Len(content) :
        ClassAt(content, i, 8, DigitChars \cup SpaceChars \cup {"+", "-"})

\* re.search(r'[A-Z]{2}\s*\d{6,12}', content.upper()) finds a frequent
\* flyer number
has_ff_number(content) ==
    LET s == Upper(content)
    IN  \E i \in 1..Len(s) :
            /\ ClassAt(s, i, 2, AsciiUpper)
            /\ DigitsAt(s, SkipSpaces(s, i + 2), 6)

\* the loop over meal_codes finds a meal code
has_meal_code(content) ==
    \E k \in 1..Len(meal_codes) :
        \/ Contains(Lower(meal_codes[k]), Lower(content))
        \/ Contains(meal_codes[k], Upper(content))

(***************************************************************************)
(* Handlers.  A handler is applied to the state, the capability table and  *)
(* the way the outside world answers during the turn (answers):            *)
(*   answers.tool_ok   the vendor or tool reports success                  *)
(*   answers.raises    the LLM call (or the closing of the vendor client)  *)
(*                     raises                                              *)
(*   answers.offers    the sources whose search returns an offer; the      *)
(*                     search of every other source raises                 *)
(* Its result is the update it returns (reply, current_agent,              *)
(* flight_results, error), whether it raised instead of returning, and     *)
(* the gate checks and outside calls it made, in order.  A reply is the    *)
(* kind of text the user gets, not the text.                               *)
(***************************************************************************)

GateOpen(capability_id) == <<"gate_open", capability_id>>
GateClosed(capability_id) == <<"gate_closed", capability_id>>
VendorCall(name) == <<"vendor", name>>
ToolCall(name) == <<"tool", name>>
LlmCall(name) == <<"llm", name>>

\* return {"messages": [AIMessage(content)], "current_agent": agent}
Reply(agent, content, events) ==
    [ raised |-> FALSE, reply |-> <<content>>, current_agent |-> agent,
      sets_results |-> FALSE, flight_results |-> DefaultFlightSearchResult,
      sets_error |-> FALSE, events |-> events ]

\* the handler ends with an exception
Raise(events) ==
    [ raised |-> TRUE, reply |-> <<>>, current_agent |-> Unset,
      sets_results |-> FALSE, flight_results |-> DefaultFlightSearchResult,
      sets_error |-> FALSE, events |-> events ]

\* get_not_supported_message(capability_id)
get_not_supported_message(capability_id) == <<"not_supported", capability_id>>

\* messages[-1].content
LastContent(state) == state.messages[Len(state.messages)].content

\* s[:n]
Head_n(s, n) == IF Len(s) <= n THEN s ELSE SubSeq(s, 1, n)

\* how many flights flight_agent_node keeps in the state
KeptFlights == 20

\* f"flight_search_{search_type}"
FlightCapability(search_type) ==
    CASE search_type = "oneway" -> "flight_search_oneway"
      [] search_type = "roundtrip" -> "flight_search_roundtrip"
      [] OTHER -> "flight_search_multicity"

\* search_all_sources seen from the handler: every source is asked once
\* and the results are merged
search_all_sources(offers) ==
    merge_results(gather(
        [s \in Sources |->
            IF s \in offers
            THEN success_result(s, <<[id |-> 1, total_price |-> 100]>>)
            ELSE failure_result(s)],
        API_SOURCES))

\* the parameters named in the reply that asks for more information
missing_params(params) ==
    (IF params.origin = None THEN <<"origin">> ELSE <<>>)
    \o (IF params.destination = None THEN <<"destination">> ELSE <<>>)
    \o (IF params.departure_date = None THEN <<"departure_date">> ELSE <<>>)

\* flight_agent_node with the required-parameter check left out
flight_agent_node_unprompted(state, table, answers) ==
    LET params == state.flight_search
        capability_id == FlightCapability(params.search_type)
        search_result == search_all_sources(answers.offers)
        gate == <<GateOpen(capability_id)>>
    IN  IF ~is_capability_available(table, capability_id)
            THEN Reply("flight", get_not_supported_message(capability_id),
                       <<GateClosed(capability_id)>>)
        ELSE [ Reply("flight",
                     <<format_flight_results(search_result, params).text>>,
                     gate \o [i \in 1..Len(API_SOURCES) |-> VendorCall(API_SOURCES[i])])
               EXCEPT !.sets_results = TRUE,
                      !.flight_results =
                        [ search_id |-> <<"m", "u", "l", "t", "i", "_">>
                                        \o params.origin \o <<"_">> \o params.destination,
                          flights |-> Head_n(search_result.flights, KeptFlights),
                          total_results |-> search_result.total_results,
                          has_more |-> search_result.has_more ] ]

flight_agent_node_ungated(state, table, answers) ==
    LET params == state.flight_search
        search_result == search_all_sources(answers.offers)
    IN  [ Reply("flight",
                <<format_flight_results(search_result, params).text>>,
                <<VendorCall("F1"), VendorCall("F10"), VendorCall("VJ")>>)
          EXCEPT !.sets_results = TRUE ]

flight_agent_node(state, table, answers) ==
    LET params == state.flight_search
        capability_id == FlightCapability(params.search_type)
        search_result == search_all_sources(answers.offers)
        gate == <<GateOpen(capability_id)>>
    IN  IF ~is_capability_available(table, capability_id)
            THEN Reply("flight", get_not_supported_message(capability_id),
                       <<GateClosed(capability_id)>>)
        ELSE IF params.country_suggestions # <<>>
            THEN Reply("flight", <<"country_suggestions">>, gate)
        ELSE IF missing_params(params) # <<>>
            THEN Reply("flight", <<"missing_params">> \o missing_params(params), gate)
        ELSE [ Reply("flight",
                     <<format_flight_results(search_result, params).text>>,
                     gate \o [i \in 1..Len(API_SOURCES) |-> VendorCall(API_SOURCES[i])])
               EXCEPT !.sets_results = TRUE,
                      !.flight_results =
                        [ search_id |-> <<"m", "u", "l", "t", "i", "_">>
                                        \o params.origin \o <<"_">> \o params.destination,
                          flights |-> Head_n(search_result.flights, KeptFlights),
                          total_results |-> search_result.total_results,
                          has_more |-> search_result.has_more ] ]

booking_agent_node(state, table, answers) ==
    LET content == LastContent(state)
        last_message == Lower(content)
    IN  IF state.messages = <<>> THEN Reply("booking", <<"booking_help">>, <<>>)
        ELSE IF AnyIn(pnr_keywords, last_message)
            THEN IF ~is_capability_available(table, "booking_lookup")
                    THEN Reply("booking", get_not_supported_message("booking_lookup"),
                               <<GateClosed("booking_lookup")>>)
                 ELSE IF has_pnr_code(content)
                    THEN IF answers.raises
                         THEN Raise(<<GateOpen("booking_lookup"),
                                      VendorCall("get_pnr_history")>>)
                         ELSE Reply("booking",
                                    IF answers.tool_ok THEN <<"booking_info">>
                                    ELSE <<"booking_lookup_failed">>,
                                    <<GateOpen("booking_lookup"),
                                      VendorCall("get_pnr_history")>>)
                 ELSE Reply("booking", <<"ask_pnr_code">>,
                            <<GateOpen("booking_lookup")>>)
        ELSE IF state.flight_results.flights # <<>>
            THEN IF ~is_capability_available(table, "booking_create")
                    THEN Reply("booking", get_not_supported_message("booking_create"),
                               <<GateClosed("booking_create")>>)
                 ELSE IF answers.raises
                    THEN Raise(<<GateOpen("booking_create"), LlmCall("booking")>>)
                 ELSE Reply("booking", <<"booking_guidance">>,
                            <<GateOpen("booking_create"), LlmCall("booking")>>)
        ELSE Reply("booking", <<"search_first">>, <<>>)

\* a reply that depends on whether the tool reported success
ToolReply(agent, tool, gate, answers, done, failed) ==
    Reply(agent, IF answers.tool_ok THEN <<done>> ELSE <<failed>>,
          <<gate, ToolCall(tool)>>)

ticketing_agent_node(state, table, answers) ==
    LET content == LastContent(state)
        last_message == Lower(content)
        gate == GateOpen("ticketing")
    IN  IF state.messages = <<>> THEN Reply("ticketing", <<"ticketing_help">>, <<>>)
        ELSE IF ~is_capability_available(table, "ticketing")
            THEN Reply("ticketing", get_not_supported_message("ticketing"),
                       <<GateClosed("ticketing")>>)
        ELSE IF AnyIn(ISSUE_WORDS, last_message)
            THEN IF has_pnr_code(content)
                 THEN ToolReply("ticketing", "issue_ticket", gate, answers,
                                "ticket_issued", "issue_failed")
                 ELSE Reply("ticketing", <<"ask_pnr_code">>, <<gate>>)
        ELSE IF AnyIn(VOID_WORDS, last_message)
            THEN IF has_ticket_number(content) /\ has_pnr_code(content)
                 THEN ToolReply("ticketing", "void_ticket", gate, answers,
                                "ticket_voided", "void_failed")
                 ELSE Reply("ticketing", <<"ask_ticket_and_pnr">>, <<gate>>)
        ELSE IF AnyIn(REISSUE_WORDS, last_message)
            THEN Reply("ticketing", <<"reissue_guidance">>, <<gate>>)
        ELSE IF AnyIn(STATUS_WORDS, last_message)
            THEN IF has_ticket_number(content)
                 THEN Reply("ticketing", <<"ticket_status">>,
                            <<gate, ToolCall("get_ticket_status")>>)
                 ELSE Reply("ticketing", <<"ask_ticket_number">>, <<gate>>)
        ELSE IF AnyIn(REFUND_WORDS, last_message)
            THEN Reply("ticketing", <<"refund_guidance">>, <<gate>>)
        ELSE Reply("ticketing", <<"ticketing_help">>, <<gate>>)

\* the handler ends without a return statement: the graph applies no update
NoUpdate(events) ==
    [ raised |-> FALSE, reply |-> <<>>, current_agent |-> Unset,
      sets_results |-> FALSE, flight_results |-> DefaultFlightSearchResult,
      sets_error |-> FALSE, events |-> events ]

pnr_agent_node(state, table, answers) ==
    LET content == LastContent(state)
        last_message == Lower(content)
        gate == GateOpen("pnr_management")
        pnr_code == has_pnr_code(content)
    IN  IF state.messages = <<>> THEN Reply("pnr", <<"pnr_help">>, <<>>)
        ELSE IF ~is_capability_available(table, "pnr_management")
            THEN Reply("pnr", get_not_supported_message("pnr_management"),
                       <<GateClosed("pnr_management")>>)
        ELSE IF AnyIn(RETRIEVE_WORDS, last_message)
            THEN IF pnr_code
                 THEN Reply("pnr", <<"pnr_details">>, <<gate, ToolCall("retrieve_pnr")>>)
                 ELSE Reply("pnr", <<"ask_pnr_code">>, <<gate>>)
        ELSE IF AnyIn(CANCEL_WORDS, last_message)
            THEN IF AnyIn(SEGMENT_WORDS, last_message)
                 THEN IF pnr_code
                      THEN ToolReply("pnr", "cancel_segment", gate, answers,
                                     "segment_cancelled", "cancel_failed")
                      ELSE Reply("pnr", <<"ask_pnr_and_segment">>, <<gate>>)
                 ELSE IF pnr_code
                      THEN ToolReply("pnr", "cancel_pnr", gate, answers,
                                     "pnr_cancelled", "cancel_failed")
                      ELSE Reply("pnr", <<"ask_pnr_code">>, <<gate>>)
        ELSE IF AnyIn(CHANGE_FLIGHT_WORDS, last_message)
            THEN Reply("pnr", IF pnr_code THEN <<"change_guidance">>
                              ELSE <<"ask_pnr_and_flight">>, <<gate>>)
        ELSE IF AnyIn(UPDATE_WORDS, last_message)
            THEN IF AnyIn(CONTACT_WORDS, last_message)
                 THEN IF pnr_code
                      THEN IF has_email(content) \/ has_phone(content)
                           THEN ToolReply("pnr", "update_contact", gate, answers,
                                          "contact_updated", "update_failed")
                           ELSE Reply("pnr", <<"ask_contact">>, <<gate>>)
                      ELSE Reply("pnr", <<"ask_pnr_and_update">>, <<gate>>)
                 ELSE NoUpdate(<<gate>>)
        ELSE IF AnyIn(FREQUENT_FLYER_WORDS, last_message)
            THEN IF pnr_code
                 THEN IF has_ff_number(content)
                      THEN ToolReply("pnr", "add_frequent_flyer", gate, answers,
                                     "ff_added", "ff_failed")
                      ELSE Reply("pnr", <<"ask_ff_number">>, <<gate>>)
                 ELSE Reply("pnr", <<"ask_pnr_and_ff">>, <<gate>>)
        ELSE IF AnyIn(SSR_WORDS, last_message)
            THEN Reply("pnr", IF pnr_code THEN <<"ssr_list">> ELSE <<"ask_pnr_code">>,
                       <<gate>>)
        ELSE IF AnyIn(HISTORY_WORDS, last_message)
            THEN IF pnr_code
                 THEN Reply("pnr", IF answers.tool_ok THEN <<"pnr_history">>
                                   ELSE <<"no_history">>,
                            <<gate, ToolCall("get_pnr_history")>>)
                 ELSE Reply("pnr", <<"ask_pnr_code">>, <<gate>>)
        ELSE Reply("pnr", <<"pnr_help">>, <<gate>>)

ancillary_agent_node(state, table, answers) ==
    LET content == LastContent(state)
        last_message == Lower(content)
        gate == GateOpen("ancillary")
        pnr_code == has_pnr_code(content)
        help == Reply("ancillary", <<"ancillary_help">>, <<gate>>)
    IN  IF state.messages = <<>> THEN Reply("ancillary", <<"ancillary_help">>, <<>>)
        ELSE IF ~is_capability_available(table, "ancillary")
            THEN Reply("ancillary", get_not_supported_message("ancillary"),
                       <<GateClosed("ancillary")>>)
        ELSE IF AnyIn(SEAT_WORDS, last_message)
            THEN IF AnyIn(SEAT_MAP_WORDS, last_message)
                 THEN IF pnr_code
                      THEN Reply("ancillary", <<"seat_map">>,
                                 <<gate, ToolCall("get_seat_map")>>)
                      ELSE Reply("ancillary", <<"ask_pnr_code">>, <<gate>>)
                 ELSE IF AnyIn(SEAT_SELECT_WORDS, last_message)
                 THEN IF pnr_code /\ has_seat_number(content)
                      THEN ToolReply("ancillary", "select_seat", gate, answers,
                                     "seat_selected", "seat_failed")
                      ELSE Reply("ancillary", <<"ask_pnr_and_seat">>, <<gate>>)
                 ELSE help
        ELSE IF AnyIn(BAGGAGE_WORDS, last_message)
            THEN IF AnyIn(BAGGAGE_OPTION_WORDS, last_message)
                 THEN IF pnr_code
                      THEN Reply("ancillary", <<"baggage_options">>,
                                 <<gate, ToolCall("get_baggage_options")>>)
                      ELSE Reply("ancillary", <<"ask_pnr_code">>, <<gate>>)
                 ELSE IF AnyIn(BAGGAGE_ADD_WORDS, last_message)
                 THEN IF pnr_code
                      THEN ToolReply("ancillary", "add_baggage", gate, answers,
                                     "baggage_added", "baggage_failed")
                      ELSE Reply("ancillary", <<"ask_pnr_code">>, <<gate>>)
                 ELSE help
        ELSE IF AnyIn(MEAL_WORDS, last_message)
            THEN IF AnyIn(MEAL_OPTION_WORDS, last_message)
                 THEN IF pnr_code
                      THEN Reply("ancillary", <<"meal_options">>,
                                 <<gate, ToolCall("get_meal_options")>>)
                      ELSE Reply("ancillary", <<"ask_pnr_code">>, <<gate>>)
                 ELSE IF AnyIn(MEAL_ORDER_WORDS, last_message)
                 THEN IF pnr_code /\ has_meal_code(content)
                      THEN ToolReply("ancillary", "add_special_meal", gate, answers,
                                     "meal_ordered", "meal_failed")
                      ELSE Reply("ancillary", <<"ask_pnr_and_meal">>, <<gate>>)
                 ELSE help
        ELSE help

\* detect_policy_capability(message): the capability id, Unset for None
detect_policy_capability(message) ==
    LET msg_lower == Lower(message)
    IN  IF AnyIn(BAGGAGE_KEYWORDS, msg_lower) THEN "baggage_policy"
        ELSE IF AnyIn(REFUND_KEYWORDS, msg_lower) THEN "refund_policy"
        ELSE Unset

\* chat_agent_node without the try around the LLM call
chat_agent_node_uncaught(state, table, answers) ==
    LET last_message == IF state.messages # <<>> THEN LastContent(state) ELSE <<>>
        policy_capability == detect_policy_capability(last_message)
        gate == IF policy_capability # Unset
                THEN <<GateOpen(policy_capability)>> ELSE <<>>
    IN  IF policy_capability # Unset
            /\ ~is_capability_available(table, policy_capability)
            THEN Reply("chat", get_not_supported_message(policy_capability),
                       <<GateClosed(policy_capability)>>)
        ELSE IF answers.raises
            THEN Raise(gate \o <<LlmCall("chat")>>)
        ELSE Reply("chat", <<"chat_answer">>, gate \o <<LlmCall("chat")>>)

chat_agent_node(state, table, answers) ==
    LET last_message == IF state.messages # <<>> THEN LastContent(state) ELSE <<>>
        policy_capability == detect_policy_capability(last_message)
        gate == IF policy_capability # Unset
                THEN <<GateOpen(policy_capability)>> ELSE <<>>
    IN  IF policy_capability # Unset
            /\ ~is_capability_available(table, policy_capability)
            THEN Reply("chat", get_not_supported_message(policy_capability),
                       <<GateClosed(policy_capability)>>)
        ELSE IF answers.raises
            THEN [ Reply(Unset, <<"chat_error">>, gate \o <<LlmCall("chat")>>)
                   EXCEPT !.sets_error = TRUE ]
        ELSE Reply("chat", <<"chat_answer">>, gate \o <<LlmCall("chat")>>)

(***************************************************************************)
(* Supervisor and graph                                                    *)
(***************************************************************************)

\* [m for m in messages if isinstance(m, HumanMessage)]
HumanMessages(messages) == SelectSeq(messages, LAMBDA m : m.role = "human")

\* the FlightSearchParams the supervisor builds from the params dict
SearchParamsOf(flight_params) ==
    [ DefaultFlightSearchParams EXCEPT
        !.origin = flight_params.origin,
        !.destination = flight_params.destination,
        !.departure_date = flight_params.departure_date,
        !.adults = flight_params.adults,
        !.search_type = flight_params.search_type ]

\* the updates supervisor_node returns: raised when extract_flight_params
\* ended with an exception, sets_search when flight_search is among them
SupervisorUpdates(next_agent, intent) ==
    [ raised |-> FALSE, next_agent |-> next_agent, intent |-> intent,
      sets_search |-> FALSE, flight_search |-> DefaultFlightSearchParams ]

supervisor_node(state, today) ==
    LET messages == state.messages
        last_message == messages[Len(messages)]
        user_messages == HumanMessages(messages)
        user_text == IF last_message.role = "ai"
                     THEN user_messages[Len(user_messages)].content
                     ELSE last_message.content
        intent == detect_intent(user_text, <<state>>)
        flight_params == extract_flight_params(user_text, today)
    IN  IF messages = <<>> THEN SupervisorUpdates("chat", "greeting")
        ELSE IF last_message.role = "ai" /\ user_messages = <<>>
            THEN SupervisorUpdates("chat", "no_user_message")
        ELSE IF intent = "flight"
            THEN [ SupervisorUpdates(intent, intent) EXCEPT
                        !.raised = flight_params.raised,
                        !.sets_search = TRUE,
                        !.flight_search = SearchParamsOf(flight_params) ]
        ELSE SupervisorUpdates(intent, intent)

\* should_continue without its branch for "end": the default applies
should_continue_no_end(state) ==
    CASE state.next_agent = "chat" -> "chat_agent"
      [] state.next_agent = "flight" -> "flight_agent"
      [] state.next_agent = "booking" -> "booking_agent"
      [] state.next_agent = "ticketing" -> "ticketing_agent"
      [] state.next_agent = "pnr" -> "pnr_agent"
      [] state.next_agent = "ancillary" -> "ancillary_agent"
      [] OTHER -> "chat_agent"

\* should_continue(state): the node the graph runs next
should_continue(state) ==
    CASE state.next_agent = "end" -> "end"
      [] state.next_agent = "chat" -> "chat_agent"
      [] state.next_agent = "flight" -> "flight_agent"
      [] state.next_agent = "booking" -> "booking_agent"
      [] state.next_agent = "ticketing" -> "ticketing_agent"
      [] state.next_agent = "pnr" -> "pnr_agent"
      [] state.next_agent = "ancillary" -> "ancillary_agent"
      [] OTHER -> "chat_agent"

\* the state after the supervisor's updates if flight_search were among
\* them on every turn
AfterSupervisor_always_writing(state, updates) ==
    [ state EXCEPT
        !.next_agent = updates.next_agent,
        !.intent = updates.intent,
        !.flight_search = updates.flight_search ]

\* the state after the graph applied the supervisor's updates
AfterSupervisor(state, updates) ==
    [ state EXCEPT
        !.next_agent = updates.next_agent,
        !.intent = updates.intent,
        !.flight_search = IF updates.sets_search THEN updates.flight_search ELSE @ ]

\* the state after a handler's update if the messages channel had no
\* reducer: the handler's messages take the place of the list
AfterHandler_overwriting(state, update) ==
    [ state EXCEPT
        !.messages = [i \in 1..Len(update.reply) |-> AIMessage(update.reply[i])],
        !.current_agent = IF update.current_agent # Unset
                          THEN update.current_agent ELSE @,
        !.flight_results = IF update.sets_results THEN update.flight_results ELSE @,
        !.error = IF update.sets_error THEN TRUE ELSE @ ]

\* the state after the graph applied a handler's update; the messages
\* channel appends (add_messages), every other channel is overwritten
AfterHandler(state, update) ==
    [ state EXCEPT
        !.messages = @ \o [i \in 1..Len(update.reply) |-> AIMessage(update.reply[i])],
        !.current_agent = IF update.current_agent # Unset
                          THEN update.current_agent ELSE @,
        !.flight_results = IF update.sets_results THEN update.flight_results ELSE @,
        !.error = IF update.sets_error THEN TRUE ELSE @ ]

\* process_message, building the initial state: the stored state with the
\* new message appended, or a fresh state for a new session
initial_state(existing_state, message, session_id) ==
    IF existing_state # <<>>
    THEN [ existing_state[1] EXCEPT !.messages = Append(@, HumanMessage(message)) ]
    ELSE NewAgentState(<<HumanMessage(message)>>, session_id)

\* the content of the last AIMessage, "" when there is none
response_text(messages) ==
    LET ai == SelectSeq(messages, LAMBDA m : m.role = "ai")
    IN  IF ai = <<>> THEN <<>> ELSE ai[Len(ai)].content

\* what process_message would return if it reported the routing decision
\* as the agent
graph_result_routed(result) ==
    [ response |-> response_text(result.messages),
      state |-> result,
      agent |-> result.next_agent,
      intent |-> result.intent ]

\* what process_message returns when the graph ran to its end
graph_result(result) ==
    [ response |-> response_text(result.messages),
      state |-> result,
      agent |-> result.current_agent,
      intent |-> result.intent ]

\* what process_message returns when the graph raised
graph_error(state) ==
    [ response |-> <<"error">>,
      state |-> state,
      agent |-> "error",
      intent |-> Unset ]

(***************************************************************************)
(* Inputs of the classifier: messages built from a vocabulary of phrases   *)
(***************************************************************************)

\* how many vocabulary phrases a message is made of, at most
MaxPhrases == 2

Vocabulary ==
    { <<"t", "u00ec", "m", " ", "v", "u00e9">>,            \* strong flight
      <<"F", "l", "i", "g", "h", "t">>,                    \* strong flight, capitalised
      <<"m", "u00f9", "a", " ", "n", "u00e0", "o">>,       \* chat
      <<"h", "o", "u00e0", "n", " ", "v", "u00e9">>,       \* chat and ticketing
      <<"b", "a", "g", "g", "a", "g", "e">>,               \* chat and ancillary
      <<"v", "o", "i", "d">>,                              \* ticketing only
      <<"s", "e", "a", "t">>,                              \* ancillary only
      <<"p", "n", "r">>,                                   \* pnr and booking
      <<"c", "a", "n", "c", "e", "l">>,                    \* pnr only
      <<"h", "u1ee7", "y", " ", "b", "o", "o", "k", "i", "n", "g">>, \* pnr twice
      <<"t", "r", "a", " ", "c", "u1ee9", "u">>,           \* booking only
      <<"h", "u00e0", " ", "n", "u1ed9", "i">>,            \* weak flight, one hit
      <<"b", "a", "y", " ", "s", "g">>,                    \* weak flight, two hits
      <<"o", "k">>,                                        \* continuation
      <<"t", "i", "u1ebf", "p">>,                          \* continuation
      <<"y", "e", "s">>,                                   \* continuation
      <<"v", "u00e2", "n", "g">>,                          \* continuation
      <<"b", "y", "e">>,                                   \* farewell
      <<"x", "y", "z">> }                                  \* no keyword

RECURSIVE MessagesOf(_)
\* the messages of exactly n phrases, joined by single spaces
MessagesOf(n) ==
    IF n = 0 THEN {<<>>}
    ELSE IF n = 1 THEN Vocabulary
    ELSE {m \o <<" ">> \o p : m \in MessagesOf(n - 1), p \in Vocabulary}

Messages == UNION {MessagesOf(n) : n \in 0..MaxPhrases}

SearchContexts ==
    { [DefaultFlightSearchParams EXCEPT !.origin = o, !.destination = d] :
        o \in {None, <<"S", "G", "N">>}, d \in {None, <<"H", "A", "N">>} }

\* the states detect_intent is called with: None, or a state with its search context
PriorStates == {<<>>} \cup {<<[flight_search |-> fs]>> : fs \in SearchContexts}

(***************************************************************************)
(* Inputs of the aggregator: what each vendor source answers               *)
(***************************************************************************)

\* how many flights one source returns, at most
MaxFlights == 2

\* total prices the vendors quote
Prices == {100, 200}

RECURSIVE FlightLists(_)
\* the flight lists of exactly n offers, ids 1..n in the order returned
FlightLists(n) ==
    IF n = 0 THEN {<<>>}
    ELSE {Append(l, [id |-> n, total_price |-> pr]) : l \in FlightLists(n - 1), pr \in Prices}

\* a vendor search either raises or returns a list of offers
VendorAnswers ==
    {[raises |-> TRUE, flights |-> <<>>]} \cup
    {[raises |-> FALSE, flights |-> l] : l \in UNION {FlightLists(n) : n \in 0..MaxFlights}}

(***************************************************************************)
(* Inputs of the chat endpoint                                             *)
(***************************************************************************)

\* how many chat requests arrive
MaxRequests == 2

\* the session the requests belong to
SessionIds == {"s1"}

\* the day datetime.now() falls on during the run (a Friday)
Today == [year |-> 2025, month |-> 1, day |-> 10]

\* the messages users send
TurnMessages ==
    { <<"t", "u00ec", "m", " ", "v", "u00e9", " ", "s", "g", "-", "h", "n", " ", "m", "a", "i">>,
      <<"o", "k">>,
      <<"t", "r", "a", " ", "c", "u1ee9", "u", " ", "b", "o", "o", "k", "i", "n", "g", " ", "A", "B", "C", "1", "2", "3">>,
      <<"g", "i", "u1eef", " ", "c", "h", "u1ed7", " ", "u0111", "u1eb7", "t", " ", "c", "h", "u1ed7">>,
      <<"x", "u", "u1ea5", "t", " ", "v", "u00e9", " ", "A", "B", "C", "1", "2", "3">>,
      <<"h", "u1ee7", "y", " ", "b", "o", "o", "k", "i", "n", "g", " ", "A", "B", "C", "1", "2", "3">>,
      <<"s", "e", "a", "t", " ", "m", "a", "p", " ", "A", "B", "C", "1", "2", "3">>,
      <<"t", "u00ec", "m", " ", "v", "u00e9", " ", "u0111", "i", " ", "m", "u1ef9">>,
      <<"t", "u00ec", "m", " ", "v", "u00e9", " ", "3", "1", "/", "2">>,
      <<"t", "u00ec", "m", " ", "v", "u00e9", " ", "k", "h", "u1ee9", " ", "h", "u1ed3", "i", " ", "s", "g", "-", "h", "n", " ", "m", "a", "i">>,
      <<"b", "y", "e">> }

\* how the outside world can answer during one turn: to a search, to a
\* booking lookup (which may fail, and whose client may raise on closing),
\* to a tool call, to an LLM call
NoAnswers == [tool_ok |-> TRUE, raises |-> FALSE, offers |-> {}]
SearchAnswers == {[NoAnswers EXCEPT !.offers = o] : o \in SUBSET Sources}
LookupAnswers == {[NoAnswers EXCEPT !.tool_ok = ok, !.raises = r] : ok, r \in BOOLEAN}
ToolAnswers == {[NoAnswers EXCEPT !.tool_ok = ok] : ok \in BOOLEAN}
LlmAnswers == {[NoAnswers EXCEPT !.raises = r] : r \in BOOLEAN}

\* a request that has not arrived.  Besides what the request holds
\* (message, initial_state, state, response), a turn records whether
\* another request of the session was in flight when it arrived
\* (concurrent), the stored state it read (existing_state, empty for a new
\* session), the handler node that ran (ran) and how many handler nodes
\* ran (handler_runs), whether its session was cleared while it was in
\* flight (cleared), the node in which an
\* exception was raised (raised_in) and the gate checks and outside calls
\* of the handler (events).
IdleTurn ==
    [ pc |-> "idle", session_id |-> "", message |-> <<>>,
      concurrent |-> FALSE, ran |-> "", raised_in |-> "",
      existing_state |-> <<>>, handler_runs |-> 0, cleared |-> FALSE,
      initial_state |-> NewAgentState(<<>>, ""),
      state |-> NewAgentState(<<>>, ""),
      events |-> <<>>,
      response |-> graph_error(NewAgentState(<<>>, "")) ]



(***************************************************************************)
(* Inputs of the extractor                                                 *)
(***************************************************************************)

\* how many times the extractor is called on one message, at most
MaxExtractions == 2

\* the days datetime.now() falls on when the extractor is called
ExtractDays ==
    {Today, AddDays(Today, 1), [year |-> 2025, month |-> 12, day |-> 30]}

\* what stands between the two abbreviations of a route
RouteJoints == { <<"-">>, <<" ">>, <<" ", "-", " ">> }

\* what follows the route in the message: nothing, a relative date, two
\* airport codes, or two city names with their context words
RouteSuffixes ==
    { <<>>,
      <<" ", "m", "a", "i">>,
      <<" ", "C", "X", "R", " ", "P", "Q", "C">>,
      <<" ", "t", "u1eeb", " ", "h", "u", "u1ebf", " ", "u0111", "i", " ", "u0111", "u00e0", " ", "l", "u1ea1", "t">> }

\* the messages that name a route by two abbreviations
RouteMessages ==
    { ROUTE_ABBREVS[a] \o joint \o ROUTE_ABBREVS[b] \o suffix :
        a \in 1..Len(ROUTE_ABBREVS), b \in 1..Len(ROUTE_ABBREVS),
        joint \in RouteJoints, suffix \in RouteSuffixes }

\* the messages that name a destination by its country only
CountryMessages ==
    { <<"u0111", "i", " ", "H", "u00e0", "n", " ", "Q", "u", "u1ed1", "c">>,
      <<"u0111", "i", " ", "N", "h", "u1ead", "t", " ", "B", "u1ea3", "n">>,
      <<"u0111", "i", " ", "t", "h", "u00e1", "i", " ", "l", "a", "n">>,
      <<"u0111", "i", " ", "m", "u1ef9">>,
      <<"u0111", "i", " ", "t", "r", "u", "n", "g", " ", "q", "u", "u1ed1", "c">> }

\* the relative-date keywords users write, and two of them in one message
RelativeWords ==
    { <<"h", "u00f4", "m", " ", "n", "a", "y">>,
      <<"H", "u00f4", "m", " ", "N", "a", "y">>,
      <<"n", "g", "u00e0", "y", " ", "m", "a", "i">>,
      <<"N", "G", "u00c0", "Y", " ", "M", "A", "I">>,
      <<"m", "u1ed1", "t">>,
      <<"t", "u", "u1ea7", "n", " ", "s", "a", "u">>,
      <<"h", "u00f4", "m", " ", "n", "a", "y", " ", "t", "u", "u1ea7", "n", " ", "s", "a", "u">>,
      <<"m", "u1ed1", "t", " ", "n", "g", "u00e0", "y", " ", "m", "a", "i">>,
      <<"u0111", "i", " ", "C", "h", "i", "a", "n", "g", " ", "M", "a", "i">> }

\* explicit dates of the four shapes, each far from the days of ExtractDays
ExplicitDates ==
    { <<"2", "5", "/", "1", "2", "/", "2", "0", "2", "5">>,
      <<"2", "0", "2", "5", "-", "1", "2", "-", "2", "5">>,
      <<"n", "g", "u00e0", "y", " ", "5", "/", "3", "/", "2", "0", "2", "6">>,
      <<"5", "/", "3">> }

\* what stands around a date in a message
DatePrefixes == { <<>>, <<"t", "u00ec", "m", " ", "v", "u00e9", " ", "s", "g", "-", "h", "n", " ">> }
DateSuffixes == { <<>>, <<" ", "2", " ", "n", "g", "u01b0", "u1edd", "i">> }

\* the messages with a relative-date keyword, alone or next to an explicit
\* date
RelativeMessages ==
    { prefix \o word : prefix \in DatePrefixes, word \in RelativeWords }
        \cup { word \o <<" ">> \o date : word \in RelativeWords, date \in ExplicitDates }
        \cup { date \o <<" ">> \o word : word \in RelativeWords, date \in ExplicitDates }

\* the digits of a day or a month as users write them, with or without
\* the leading zero
Written(n, padded) == IF padded THEN Decimal(n, 2) ELSE Decimal(n, 1)

\* a day, month and year written as DD/MM/YYYY or DD-MM-YYYY
WrittenDate(d, m, y, padded, sep) ==
    Written(d, padded) \o <<sep>> \o Written(m, padded) \o <<sep>> \o Decimal(y, 4)

DateDays == {5, 25}
DateMonths == {3, 12}
DateYears == {2025, 2026}

\* the messages whose only date expression is a DD/MM/YYYY date
DayMonthYearMessages ==
    { prefix \o WrittenDate(d, m, y, padded, sep) \o suffix :
        prefix \in DatePrefixes, suffix \in DateSuffixes,
        d \in DateDays, m \in DateMonths, y \in DateYears,
        padded \in BOOLEAN, sep \in DateSeparators }

ExtractMessages ==
    RouteMessages \cup CountryMessages \cup RelativeMessages
        \cup DayMonthYearMessages


(***************************************************************************)
(* Vendor HTTP client: one request with its retry policy                   *)
(***************************************************************************)

\* stop_after_attempt(3)
stop_after_attempt == 3

\* wait_exponential(multiplier=1, min=1, max=10)
WAIT_MULTIPLIER == 1
WAIT_MIN == 1
WAIT_MAX == 10

\* the seconds waited after attempt number n:
\* max(min, min(multiplier * 2 ** (n - 1), max))
wait_exponential(attempt_number) ==
    LET result == WAIT_MULTIPLIER * 2 ^ (attempt_number - 1)
        capped == IF result < WAIT_MAX THEN result ELSE WAIT_MAX
    IN  IF capped > WAIT_MIN THEN capped ELSE WAIT_MIN

\* retry_if_exception_type((httpx.TimeoutException, httpx.NetworkError))
RETRIED_EXCEPTIONS == {"httpx.TimeoutException", "httpx.NetworkError"}

\* what can happen to one attempt: a response below 400, a 422, another
\* status of 400 or more, a timeout, a network error
HttpAnswers == {"ok", "status_422", "status_4xx_5xx", "timeout", "network_error"}

\* the exception the body of _request ends with for an answer ("none"
\* when it returns the decoded response): the two httpx exceptions are
\* caught inside the body and raised again as API errors
request_body(answer) ==
    CASE answer = "ok" -> "none"
      [] answer = "status_422" -> "APIValidationError"
      [] answer = "status_4xx_5xx" -> "APIError"
      [] answer = "timeout" -> "APITimeoutError"
      [] answer = "network_error" -> "APIError"

\* the retry decorator after an attempt that ended with the exception:
\* "return", "retry", or "raise"
retry_decision(exception, attempt_number) ==
    IF exception = "none" THEN "return"
    ELSE IF exception \notin RETRIED_EXCEPTIONS THEN "raise"
    ELSE IF attempt_number >= stop_after_attempt THEN "raise"
    ELSE "retry"

\* how many requests the client makes, at most
MaxCalls == 3

\* no request under way
NoRequest ==
    [ pc |-> "idle", method |-> "", attempt_number |-> 0, answers |-> <<>>,
      waits |-> <<>>, outcome |-> "" ]

(***************************************************************************)
(* State                                                                   *)
(***************************************************************************)

VARIABLES
    in_message,     \* classifier input: the message
    in_state,       \* classifier input: the prior state (<<>> for None)
    out_intent,     \* classifier output
    ext_message,    \* extractor input: the message
    ext_results,    \* what each call of the extractor on it returned, in order
    ext_days,       \* the day datetime.now() fell on in each of the calls
    request,        \* the vendor HTTP request the client is making
    request_log,    \* the requests the client has finished, in order
    task_pc,        \* per source: where its search_single_source task is
    task_out,       \* per source: what the task hands to asyncio.gather
    completed,      \* the sources in the order their tasks finished
    vendor_calls,   \* per source: search requests issued to the vendor
    aggregate,      \* what search_all_sources returned
    capabilities,   \* the capability table the deployment runs with
    sessions,       \* _sessions: session id |-> <<>> or <<AgentState>>
    turn            \* per chat request: where it is and what it holds

intentVars == <<in_message, in_state, out_intent>>
extractVars == <<ext_message, ext_results, ext_days>>
requestVars == <<request, request_log>>
searchVars == <<task_pc, task_out, completed, vendor_calls, aggregate>>
chatVars == <<capabilities, sessions, turn>>
vars == <<in_message, in_state, out_intent, ext_message, ext_results, ext_days,
          request, request_log,
          task_pc, task_out, completed, vendor_calls, aggregate,
          capabilities, sessions, turn>>

Pending == "pending"

IntentIdle ==
    /\ in_message = <<>>
    /\ in_state = <<>>
    /\ out_intent = "chat"

ExtractIdle ==
    /\ ext_message = <<>>
    /\ ext_results = <<>>
    /\ ext_days = <<>>

RequestIdle ==
    /\ request = NoRequest
    /\ request_log = <<>>

SearchIdle ==
    /\ task_pc = [s \in Sources |-> "done"]
    /\ task_out = [s \in Sources |-> PendingTask]
    /\ completed = <<>>
    /\ vendor_calls = [s \in Sources |-> 0]
    /\ aggregate = NoResult

ChatIdle ==
    /\ capabilities = ShippedCapabilities
    /\ sessions = [sid \in SessionIds |-> <<>>]
    /\ turn = [r \in 1..MaxRequests |-> IdleTurn]

(***************************************************************************)
(* The classifier applied to one input                                     *)
(***************************************************************************)

InitIntent ==
    /\ ExtractIdle
    /\ RequestIdle
    /\ in_message \in Messages
    /\ in_state \in PriorStates
    /\ out_intent = Pending
    /\ SearchIdle
    /\ ChatIdle

Classify ==
    /\ out_intent = Pending
    /\ out_intent' = detect_intent(in_message, in_state)
    /\ UNCHANGED <<in_message, in_state>>
    /\ UNCHANGED searchVars
    /\ UNCHANGED chatVars
    /\ UNCHANGED extractVars
    /\ UNCHANGED requestVars

NextIntent == Classify

SpecIntent == InitIntent /\ [][NextIntent]_vars

(***************************************************************************)
(* One call of search_all_sources: three concurrent tasks and the join     *)
(***************************************************************************)

InitSearch ==
    /\ IntentIdle
    /\ ExtractIdle
    /\ RequestIdle
    /\ ChatIdle
    /\ task_pc = [s \in Sources |-> "new"]
    /\ task_out = [s \in Sources |-> PendingTask]
    /\ completed = <<>>
    /\ vendor_calls = [s \in Sources |-> 0]
    /\ aggregate = NoResult

\* the event loop starts the tasks in the order gather was given them; a
\* task runs up to its first await, the vendor search request
StartTask(i) ==
    /\ task_pc[API_SOURCES[i]] = "new"
    /\ \A j \in 1..(i - 1) : task_pc[API_SOURCES[j]] # "new"
    /\ task_pc' = [task_pc EXCEPT ![API_SOURCES[i]] = "searching"]
    /\ vendor_calls' = [vendor_calls EXCEPT ![API_SOURCES[i]] = @ + 1]
    /\ UNCHANGED <<task_out, completed, aggregate>>
    /\ UNCHANGED intentVars
    /\ UNCHANGED chatVars
    /\ UNCHANGED extractVars
    /\ UNCHANGED requestVars

\* the vendor answers source s: the task builds its result dict (try or
\* except branch) and awaits client.close() in the finally block
SearchReturns(s) ==
    /\ task_pc[s] = "searching"
    /\ \E answer \in VendorAnswers :
        task_out' = [task_out EXCEPT ![s] =
            IF answer.raises THEN failure_result(s)
            ELSE success_result(s, answer.flights)]
    /\ task_pc' = [task_pc EXCEPT ![s] = "closing"]
    /\ UNCHANGED <<completed, vendor_calls, aggregate>>
    /\ UNCHANGED intentVars
    /\ UNCHANGED chatVars
    /\ UNCHANGED extractVars
    /\ UNCHANGED requestVars

\* client.close() returns, and the task returns its dict; or it raises, and
\* the exception replaces the return value
CloseReturns(s) ==
    /\ task_pc[s] = "closing"
    /\ \E close_raises \in BOOLEAN :
        task_out' = [task_out EXCEPT ![s] =
            IF close_raises THEN RaisedTask(s) ELSE @]
    /\ task_pc' = [task_pc EXCEPT ![s] = "done"]
    /\ completed' = Append(completed, s)
    /\ UNCHANGED <<vendor_calls, aggregate>>
    /\ UNCHANGED intentVars
    /\ UNCHANGED chatVars
    /\ UNCHANGED extractVars
    /\ UNCHANGED requestVars

\* a join that returns as soon as the first task has finished
Join_on_first ==
    /\ \E s \in Sources : task_pc[s] = "done"
    /\ aggregate = NoResult
    /\ aggregate' = merge_results(gather(task_out, completed))
    /\ UNCHANGED <<task_pc, task_out, completed, vendor_calls>>
    /\ UNCHANGED intentVars
    /\ UNCHANGED chatVars
    /\ UNCHANGED extractVars
    /\ UNCHANGED requestVars

\* gather returns when every task has finished; the rest of
\* search_all_sources runs without suspending
Join ==
    /\ \A s \in Sources : task_pc[s] = "done"
    /\ aggregate = NoResult
    /\ aggregate' = merge_results(gather(task_out, completed))
    /\ UNCHANGED <<task_pc, task_out, completed, vendor_calls>>
    /\ UNCHANGED intentVars
    /\ UNCHANGED chatVars
    /\ UNCHANGED extractVars
    /\ UNCHANGED requestVars

NextSearch ==
    \/ \E i \in 1..Len(API_SOURCES) : StartTask(i)
    \/ \E s \in Sources : SearchReturns(s)
    \/ \E s \in Sources : CloseReturns(s)
    \/ Join

SpecSearch == InitSearch /\ [][NextSearch]_vars

\* the same call when the event loop keeps running what can run and every
\* vendor request and every close() comes to an end: as long as a step of
\* the call is possible, one is taken
FairSpecSearch == InitSearch /\ [][NextSearch]_vars /\ WF_vars(NextSearch)


(***************************************************************************)
(* The extractor applied to one message, once or again                     *)
(***************************************************************************)

InitExtract ==
    /\ IntentIdle
    /\ RequestIdle
    /\ SearchIdle
    /\ ChatIdle
    /\ ext_message \in ExtractMessages
    /\ ext_results = <<>>
    /\ ext_days = <<>>

\* one call of extract_flight_params(ext_message)
Extract ==
    /\ Len(ext_results) < MaxExtractions
    /\ \E today \in ExtractDays :
        /\ ext_results' = Append(ext_results, extract_flight_params(ext_message, today))
        /\ ext_days' = Append(ext_days, today)
    /\ UNCHANGED ext_message
    /\ UNCHANGED intentVars
    /\ UNCHANGED searchVars
    /\ UNCHANGED chatVars
    /\ UNCHANGED requestVars

NextExtract == Extract

SpecExtract == InitExtract /\ [][NextExtract]_vars


(***************************************************************************)
(* The vendor client making requests, one after the other                  *)
(***************************************************************************)

InitRequest ==
    /\ IntentIdle
    /\ ExtractIdle
    /\ SearchIdle
    /\ ChatIdle
    /\ request = NoRequest
    /\ request_log = <<>>

\* get(...) or post(...): _request is called
BeginRequest(method) ==
    /\ request.pc = "idle"
    /\ Len(request_log) < MaxCalls
    /\ request' = [NoRequest EXCEPT !.pc = "running", !.method = method]
    /\ UNCHANGED request_log
    /\ UNCHANGED intentVars
    /\ UNCHANGED extractVars
    /\ UNCHANGED searchVars
    /\ UNCHANGED chatVars

\* one attempt: the body of _request runs, and the retry decorator returns
\* its result, raises its exception, or waits and schedules another attempt
Attempt(answer) ==
    /\ request.pc = "running"
    /\ LET attempt_number == request.attempt_number + 1
           exception == request_body(answer)
           decision == retry_decision(exception, attempt_number)
       IN  request' =
             [ request EXCEPT
                 !.attempt_number = attempt_number,
                 !.answers = Append(@, answer),
                 !.waits = IF decision = "retry"
                           THEN Append(@, wait_exponential(attempt_number)) ELSE @,
                 !.pc = CASE decision = "return" -> "returned"
                          [] decision = "raise" -> "raised"
                          [] OTHER -> "running",
                 !.outcome = IF decision = "retry" THEN "" ELSE exception ]
    /\ UNCHANGED request_log
    /\ UNCHANGED intentVars
    /\ UNCHANGED extractVars
    /\ UNCHANGED searchVars
    /\ UNCHANGED chatVars

\* the caller has its result or its error
EndRequest ==
    /\ request.pc \in {"returned", "raised"}
    /\ request_log' = Append(request_log, request)
    /\ request' = NoRequest
    /\ UNCHANGED intentVars
    /\ UNCHANGED extractVars
    /\ UNCHANGED searchVars
    /\ UNCHANGED chatVars

NextRequest ==
    \/ \E method \in {"GET", "POST"} : BeginRequest(method)
    \/ \E answer \in HttpAnswers : Attempt(answer)
    \/ EndRequest

SpecRequest == InitRequest /\ [][NextRequest]_vars

(***************************************************************************)
(* The chat endpoint: requests of one session, each going through the      *)
(* graph (supervisor, then one handler or the end) and the session store   *)
(***************************************************************************)

Init ==
    /\ IntentIdle
    /\ ExtractIdle
    /\ RequestIdle
    /\ SearchIdle
    /\ capabilities \in CapabilityTables
    /\ sessions = [sid \in SessionIds |-> <<>>]
    /\ turn = [r \in 1..MaxRequests |-> IdleTurn]

InFlight(r) == turn[r].pc \notin {"idle", "done"}

\* chat(request) up to the first suspension: the stored state is read and
\* process_message builds the initial state; requests are numbered in the
\* order they arrive
Receive(r, sid, message) ==
    /\ turn[r].pc = "idle"
    /\ \A q \in 1..(r - 1) : turn[q].pc # "idle"
    /\ turn' = [turn EXCEPT ![r] =
            [ IdleTurn EXCEPT
                !.pc = "supervisor",
                !.session_id = sid,
                !.message = message,
                !.concurrent = \E q \in 1..MaxRequests :
                                  InFlight(q) /\ turn[q].session_id = sid,
                !.existing_state = sessions[sid],
                !.initial_state = initial_state(sessions[sid], message, sid),
                !.state = initial_state(sessions[sid], message, sid) ]]
    /\ UNCHANGED <<capabilities, sessions>>
    /\ UNCHANGED intentVars
    /\ UNCHANGED searchVars
    /\ UNCHANGED extractVars
    /\ UNCHANGED requestVars

\* the supervisor node: its updates are applied, or its exception ends
\* the graph run
Supervisor(r) ==
    /\ turn[r].pc = "supervisor"
    /\ LET updates == supervisor_node(turn[r].state, Today)
       IN  turn' = [turn EXCEPT ![r] =
                IF updates.raised
                THEN [@ EXCEPT !.pc = "failed", !.raised_in = "supervisor"]
                ELSE [@ EXCEPT !.pc = "routed",
                               !.state = AfterSupervisor(@, updates)]]
    /\ UNCHANGED <<capabilities, sessions>>
    /\ UNCHANGED intentVars
    /\ UNCHANGED searchVars
    /\ UNCHANGED extractVars
    /\ UNCHANGED requestVars

\* the turn of request r after the handler's node ran with the given result
Handled(r, node, out) ==
    turn' = [turn EXCEPT ![r] =
        IF out.raised
        THEN [@ EXCEPT !.pc = "failed", !.ran = node, !.events = out.events,
                       !.handler_runs = @ + 1,
                       !.raised_in = node]
        ELSE [@ EXCEPT !.pc = "finished", !.ran = node, !.events = out.events,
                       !.handler_runs = @ + 1,
                       !.raised_in = IF out.sets_error THEN node ELSE "",
                       !.state = AfterHandler(@, out)]]

Routed(r, node) ==
    /\ turn[r].pc = "routed"
    /\ should_continue(turn[r].state) = node

FlightAgent(r) ==
    /\ Routed(r, "flight_agent")
    /\ \E answers \in SearchAnswers :
        Handled(r, "flight_agent", flight_agent_node(turn[r].state, capabilities, answers))
    /\ UNCHANGED <<capabilities, sessions>>
    /\ UNCHANGED intentVars
    /\ UNCHANGED searchVars
    /\ UNCHANGED extractVars
    /\ UNCHANGED requestVars

BookingAgent(r) ==
    /\ Routed(r, "booking_agent")
    /\ \E answers \in LookupAnswers :
        Handled(r, "booking_agent", booking_agent_node(turn[r].state, capabilities, answers))
    /\ UNCHANGED <<capabilities, sessions>>
    /\ UNCHANGED intentVars
    /\ UNCHANGED searchVars
    /\ UNCHANGED extractVars
    /\ UNCHANGED requestVars

TicketingAgent(r) ==
    /\ Routed(r, "ticketing_agent")
    /\ \E answers \in ToolAnswers :
        Handled(r, "ticketing_agent", ticketing_agent_node(turn[r].state, capabilities, answers))
    /\ UNCHANGED <<capabilities, sessions>>
    /\ UNCHANGED intentVars
    /\ UNCHANGED searchVars
    /\ UNCHANGED extractVars
    /\ UNCHANGED requestVars

PnrAgent(r) ==
    /\ Routed(r, "pnr_agent")
    /\ \E answers \in ToolAnswers :
        Handled(r, "pnr_agent", pnr_agent_node(turn[r].state, capabilities, answers))
    /\ UNCHANGED <<capabilities, sessions>>
    /\ UNCHANGED intentVars
    /\ UNCHANGED searchVars
    /\ UNCHANGED extractVars
    /\ UNCHANGED requestVars

AncillaryAgent(r) ==
    /\ Routed(r, "ancillary_agent")
    /\ \E answers \in ToolAnswers :
        Handled(r, "ancillary_agent", ancillary_agent_node(turn[r].state, capabilities, answers))
    /\ UNCHANGED <<capabilities, sessions>>
    /\ UNCHANGED intentVars
    /\ UNCHANGED searchVars
    /\ UNCHANGED extractVars
    /\ UNCHANGED requestVars

ChatAgent(r) ==
    /\ Routed(r, "chat_agent")
    /\ \E answers \in LlmAnswers :
        Handled(r, "chat_agent", chat_agent_node(turn[r].state, capabilities, answers))
    /\ UNCHANGED <<capabilities, sessions>>
    /\ UNCHANGED intentVars
    /\ UNCHANGED searchVars
    /\ UNCHANGED extractVars
    /\ UNCHANGED requestVars

\* the supervisor routed to END: no handler runs
EndTurn(r) ==
    /\ Routed(r, "end")
    /\ turn' = [turn EXCEPT ![r].pc = "finished"]
    /\ UNCHANGED <<capabilities, sessions>>
    /\ UNCHANGED intentVars
    /\ UNCHANGED searchVars
    /\ UNCHANGED extractVars
    /\ UNCHANGED requestVars

\* process_message returns and chat stores the state it returned: the
\* final state of the graph, or the initial state when the graph raised
Store(r) ==
    /\ turn[r].pc \in {"finished", "failed"}
    /\ LET result == IF turn[r].pc = "finished"
                     THEN graph_result(turn[r].state)
                     ELSE graph_error(turn[r].initial_state)
       IN  /\ sessions' = [sessions EXCEPT ![turn[r].session_id] = <<result.state>>]
           /\ turn' = [turn EXCEPT ![r].pc = "done", ![r].response = result]
    /\ UNCHANGED capabilities
    /\ UNCHANGED intentVars
    /\ UNCHANGED searchVars
    /\ UNCHANGED extractVars
    /\ UNCHANGED requestVars

\* clear_session(session_id) for a stored session: the entry is deleted.
\* (For an id without an entry the handler answers 404 and changes
\* nothing.)
ClearSession(sid) ==
    /\ sessions[sid] # <<>>
    /\ sessions' = [sessions EXCEPT ![sid] = <<>>]
    /\ turn' = [r \in 1..MaxRequests |->
                  IF InFlight(r) /\ turn[r].session_id = sid
                  THEN [turn[r] EXCEPT !.cleared = TRUE]
                  ELSE turn[r]]
    /\ UNCHANGED capabilities
    /\ UNCHANGED intentVars
    /\ UNCHANGED searchVars
    /\ UNCHANGED extractVars
    /\ UNCHANGED requestVars

Next ==
    \/ \E r \in 1..MaxRequests, sid \in SessionIds, message \in TurnMessages :
          Receive(r, sid, message)
    \/ \E sid \in SessionIds : ClearSession(sid)
    \/ \E r \in 1..MaxRequests : Supervisor(r)
    \/ \E r \in 1..MaxRequests : FlightAgent(r)
    \/ \E r \in 1..MaxRequests : BookingAgent(r)
    \/ \E r \in 1..MaxRequests : TicketingAgent(r)
    \/ \E r \in 1..MaxRequests : PnrAgent(r)
    \/ \E r \in 1..MaxRequests : AncillaryAgent(r)
    \/ \E r \in 1..MaxRequests : ChatAgent(r)
    \/ \E r \in 1..MaxRequests : EndTurn(r)
    \/ \E r \in 1..MaxRequests : Store(r)

Spec == Init /\ [][Next]_vars

(***************************************************************************)
(* Properties of the chat endpoint, checked under Spec                     *)
(***************************************************************************)

Requests == 1..MaxRequests

\* the supervisor of request r has run and routed the turn
Supervised(r) == turn[r].pc \in {"routed", "finished", "done"}

\* the turn of request r is classified flight
FlightTurn(r) == Supervised(r) /\ turn[r].state.intent = "flight"

\* what the extractor resolves from the message of request r
Extracted(r) == extract_flight_params(turn[r].message, Today)

\* the value a field has after a field-by-field merge
MergedField(new, old) == IF new # None THEN new ELSE old

\* C1 as stated: on a turn classified flight, the search parameters after
\* the supervisor hold, field by field, the value extracted from this
\* turn's message where one was resolved and the value from before the
\* turn where none was.
C1_FieldsMerged ==
    \A r \in Requests :
        FlightTurn(r) =>
            LET before == turn[r].initial_state.flight_search
                after == turn[r].state.flight_search
            IN  /\ after.origin = MergedField(Extracted(r).origin, before.origin)
                /\ after.destination =
                      MergedField(Extracted(r).destination, before.destination)
                /\ after.departure_date =
                      MergedField(Extracted(r).departure_date, before.departure_date)

\* the messages the turn of request r added to the state it started from
AddedByTurn(r) ==
    LET final == turn[r].response.state.messages
        from == Len(turn[r].initial_state.messages)
    IN  SubSeq(final, from, Len(final))

\* the state stored for the session of request r
StoredMessages(r) == sessions[turn[r].session_id][1].messages

\* request q arrived while request r of the same session was in flight,
\* and both have been answered
Overlapped(r, q) ==
    /\ r < q
    /\ turn[r].pc = "done" /\ turn[q].pc = "done"
    /\ turn[r].session_id = turn[q].session_id
    /\ turn[q].concurrent

\* C2 as stated: when two requests of one session overlap, the stored
\* state afterwards holds the user and assistant messages of both turns.
C2_NoLostTurn ==
    \A r, q \in Requests :
        Overlapped(r, q) =>
            /\ Contains(AddedByTurn(r), StoredMessages(r))
            /\ Contains(AddedByTurn(q), StoredMessages(q))
            /\ Len(HumanMessages(StoredMessages(r))) >= 2

DomainHandlers ==
    {"flight_agent", "booking_agent", "ticketing_agent", "pnr_agent",
     "ancillary_agent"}

\* a domain handler ran in the turn of request r
HandlerRan(r) == turn[r].ran \in DomainHandlers

\* the capability the handler of request r stands behind: for a booking
\* turn, booking_lookup when the message is a lookup, booking_create
\* otherwise
GatedCapability(r) ==
    CASE turn[r].ran = "flight_agent" ->
            FlightCapability(turn[r].state.flight_search.search_type)
      [] turn[r].ran = "booking_agent" ->
            IF AnyIn(pnr_keywords, Lower(turn[r].message))
            THEN "booking_lookup" ELSE "booking_create"
      [] turn[r].ran = "ticketing_agent" -> "ticketing"
      [] turn[r].ran = "pnr_agent" -> "pnr_management"
      [] OTHER -> "ancillary"

\* the handler of request r comes to its capability check: every handler
\* but the booking handler always does, the booking handler does when the
\* message is a lookup or the state holds flight results
ReachesGate(r) ==
    \/ turn[r].ran # "booking_agent"
    \/ AnyIn(pnr_keywords, Lower(turn[r].message))
    \/ turn[r].initial_state.flight_results.flights # <<>>

GateUnavailable(r) ==
    HandlerRan(r) /\ ~is_capability_available(capabilities, GatedCapability(r))

OutsideCalls(r) ==
    {i \in 1..Len(turn[r].events) : turn[r].events[i][1] \in {"vendor", "tool"}}

\* the turn of request r ended with the not-supported reply for the
\* capability
NotSupportedReply(r) ==
    /\ turn[r].pc # "failed"
    /\ turn[r].state.messages[Len(turn[r].state.messages)]
          = AIMessage(get_not_supported_message(GatedCapability(r)))

\* every vendor or tool call of the turn comes after a capability check
\* that found the capability available
GateBeforeCalls(r) ==
    \A j \in OutsideCalls(r) :
        \E i \in 1..(j - 1) :
            turn[r].events[i] = GateOpen(GatedCapability(r))

FlightHandlerRan(r) == turn[r].ran = "flight_agent"

\* the required search parameters unset when the handler of request r ran
MissingFields(r) == missing_params(turn[r].state.flight_search)

\* the content of the last message of the turn of request r
LastReply(r) == turn[r].state.messages[Len(turn[r].state.messages)].content

\* C12: while origin, destination or departure date is unset, the flight
\* handler makes no vendor call and leaves the search results of the state
\* as they were; its reply, once the capability check has passed, is the
\* prompt that names exactly the missing fields.
C12_NoSearchWhileFieldsMissing ==
    \A r \in Requests :
        (FlightHandlerRan(r) /\ MissingFields(r) # <<>>) =>
            /\ OutsideCalls(r) = {}
            /\ turn[r].state.flight_results = turn[r].initial_state.flight_results
            /\ ~GateUnavailable(r) =>
                  LastReply(r) = <<"missing_params">> \o MissingFields(r)

\* a follow-up turn that reaches the flight handler without its route and
\* date while the session holds the offers of an earlier search
C12_Witness ==
    \E r \in Requests :
        /\ FlightHandlerRan(r) /\ MissingFields(r) # <<>>
        /\ ~GateUnavailable(r)
        /\ turn[r].initial_state.flight_results.flights # <<>>
        /\ turn[r].state.flight_results = turn[r].initial_state.flight_results
        /\ LastReply(r) = <<"missing_params">> \o MissingFields(r)


\* the handler of request r has returned
HandlerReturned(r) == turn[r].pc \in {"finished", "done"} /\ turn[r].ran # ""

\* C13 as stated: when the extractor returns country suggestions for a
\* flight turn, the search parameters the flight handler reads hold them,
\* and the reply asks the user to choose among the suggested airports
\* without a search.
C13_SuggestionsReachHandler ==
    \A r \in Requests :
        (/\ FlightTurn(r) /\ HandlerReturned(r) /\ ~GateUnavailable(r)
         /\ Extracted(r).country_suggestions # <<>>) =>
            /\ turn[r].state.flight_search.country_suggestions
                  = Extracted(r).country_suggestions
            /\ LastReply(r) = <<"country_suggestions">>
            /\ OutsideCalls(r) = {}


\* the turn of request r has been answered
Answered(r) == turn[r].pc = "done"

\* a step of the turn of request r raised an exception: the supervisor
\* (the extractor runs inside it), a handler, or the text generation of
\* the chat handler
StepRaised(r) == turn[r].raised_in # ""

\* C15 as stated: when a step of the turn raises, process_message returns
\* the generic retry message with agent "error", and the returned state is
\* the prior state with only the new user message appended.
C15_ErrorsBecomeRetryMessage ==
    \A r \in Requests :
        (Answered(r) /\ StepRaised(r)) =>
            /\ turn[r].response.response = <<"error">>
            /\ turn[r].response.agent = "error"
            /\ turn[r].response.state = turn[r].initial_state


\* the state a chat turn ends in when the chat handler caught the failure
\* of its text generation: the handler's apology appended, the error
\* recorded, the routing decision of the turn, nothing else changed
AfterCaughtChatError(state) ==
    [ state EXCEPT
        !.messages = Append(@, AIMessage(<<"chat_error">>)),
        !.error = TRUE,
        !.next_agent = "chat",
        !.intent = "chat" ]

\* C15 amended: process_message always returns.  When the supervisor, the
\* extractor or a handler raises, it returns the generic retry message
\* with agent "error" and the prior state with only the new user message
\* appended.  When the text generation of the chat handler raises, the
\* handler catches it: the turn ends normally with the handler's own
\* generic apology appended as the assistant message, the error recorded
\* in the state, and the agent reported is the state's unchanged
\* current_agent.
C15_ErrorsBecomeGenericMessage ==
    \A r \in Requests :
        (Answered(r) /\ StepRaised(r)) =>
            IF turn[r].raised_in = "chat_agent"
            THEN /\ turn[r].response.response = <<"chat_error">>
                 /\ turn[r].response.agent = turn[r].initial_state.current_agent
                 /\ turn[r].response.state
                       = AfterCaughtChatError(turn[r].initial_state)
            ELSE /\ turn[r].response.response = <<"error">>
                 /\ turn[r].response.agent = "error"
                 /\ turn[r].response.state = turn[r].initial_state

\* one session in which the extractor raised in one turn and the text
\* generation of the chat handler failed in another
C15_Witness ==
    \E r, q \in Requests :
        /\ Answered(r) /\ turn[r].raised_in = "supervisor"
        /\ turn[r].response.agent = "error"
        /\ Answered(q) /\ turn[q].raised_in = "chat_agent"
        /\ turn[q].response.response = <<"chat_error">>


\* the turn of request r is completed: the endpoint has answered it
Completed(r) == turn[r].pc = "done"

\* the supervisor of request r chose a domain
Chose(r) == Completed(r) /\ turn[r].raised_in # "supervisor"

\* the domain the supervisor chose in the turn of request r
ChosenDomain(r) == turn[r].state.next_agent

\* C17 as stated: after every completed turn, whatever the routing outcome
\* (a handler, the end, a handler that met an error), the current domain
\* of the state the turn returned equals the domain the supervisor chose
\* for the turn.
C17_CurrentIsChosen ==
    \A r \in Requests :
        Chose(r) => turn[r].response.state.current_agent = ChosenDomain(r)


\* list a is a prefix of list b: the same messages in the same order
IsPrefix(a, b) == Len(a) <= Len(b) /\ SubSeq(b, 1, Len(a)) = a

\* the message list of the session before the turn of request r
MessagesBefore(r) ==
    IF turn[r].existing_state = <<>> THEN <<>>
    ELSE turn[r].existing_state[1].messages

\* the message list of the turn of request r as it stands: the list of
\* the state it returned once answered, the list of the graph state before
MessagesAfter(r) ==
    IF Completed(r) THEN turn[r].response.state.messages
    ELSE turn[r].state.messages

\* C18: the message list before a turn is a prefix of the list at every
\* step of the turn and of the list of the state the turn returns, and the
\* user's message follows it, whether a handler answered, the turn was
\* routed to the end, or a node raised.
C18_MessagesOnlyAppended ==
    \A r \in Requests :
        turn[r].pc # "idle" =>
            /\ IsPrefix(MessagesBefore(r), MessagesAfter(r))
            /\ IsPrefix(Append(MessagesBefore(r), HumanMessage(turn[r].message)),
                        MessagesAfter(r))

\* a second turn that started from the list of an answered first turn and
\* ended with a raised exception, and one that a handler answered
C18_Witness ==
    /\ Completed(1) /\ Completed(2)
    /\ Len(MessagesBefore(2)) >= 2
    /\ turn[1].raised_in = "" /\ turn[1].ran # ""
    /\ turn[2].pc = "done" /\ turn[2].raised_in \in DomainHandlers
    /\ turn[2].response.agent = "error"


\* the values of next_agent
RoutingDecisions ==
    {"chat", "flight", "booking", "ticketing", "pnr", "ancillary", "end"}

\* the handler node of a domain
HandlerOf(domain) ==
    CASE domain = "chat" -> "chat_agent"
      [] domain = "flight" -> "flight_agent"
      [] domain = "booking" -> "booking_agent"
      [] domain = "ticketing" -> "ticketing_agent"
      [] domain = "pnr" -> "pnr_agent"
      [] domain = "ancillary" -> "ancillary_agent"

\* the graph run of request r is over: a handler or the end was reached,
\* or a node raised
RunOver(r) == turn[r].pc \in {"finished", "failed", "done"}

\* the supervisor of request r returned its updates
Decided(r) ==
    /\ turn[r].pc \in {"routed", "finished", "failed", "done"}
    /\ turn[r].raised_in # "supervisor"

RanSearch(r) == FlightHandlerRan(r) /\ OutsideCalls(r) # {}

\* the state the turn of request r returned has the search parameters,
\* the search results, of the state the turn started from
SearchParamsKept(r) ==
    turn[r].response.state.flight_search = turn[r].initial_state.flight_search
SearchResultsKept(r) ==
    turn[r].response.state.flight_results = turn[r].initial_state.flight_results

\* C25: a turn classified as another domain than flight returns the state
\* with the search parameters and the last search results it started
\* with; the search results differ after a turn only when the turn ran a
\* search, so a flight turn that ends in a not-supported, disambiguation
\* or missing-parameter reply leaves them as they were.
C25_SearchContextKept ==
    \A r \in Requests :
        /\ (Chose(r) /\ ChosenDomain(r) # "flight") =>
              SearchParamsKept(r) /\ SearchResultsKept(r)
        /\ (Completed(r) /\ ~RanSearch(r)) => SearchResultsKept(r)
        /\ (Completed(r) /\ ~SearchResultsKept(r)) => RanSearch(r)

\* a search that found flights, then a turn of another domain answered by
\* its handler: the parameters and the results of the search are still
\* in the state
C25_Witness ==
    /\ Completed(1) /\ Completed(2)
    /\ RanSearch(1)
    /\ turn[1].response.state.flight_results.flights # <<>>
    /\ ~turn[2].concurrent
    /\ ChosenDomain(2) \notin {"flight", "end"} /\ turn[2].handler_runs = 1
    /\ turn[2].raised_in = ""
    /\ turn[2].response.state.flight_search.origin # None
    /\ turn[2].response.state.flight_results
          = turn[1].response.state.flight_results


\* the flight handler of request r searched for a roundtrip
RoundtripSearch(r) ==
    RanSearch(r) /\ turn[r].state.flight_search.search_type = "roundtrip"

\* C26 as stated: whenever the flight handler issues a roundtrip search
\* the search parameters carry a return date; a roundtrip message without
\* a return date gets the prompt for the missing field and no vendor call.
C26_RoundtripHasReturnDate ==
    \A r \in Requests :
        /\ RoundtripSearch(r) => turn[r].state.flight_search.return_date # None
        /\ ( /\ FlightHandlerRan(r)
             /\ ~GateUnavailable(r)
             /\ turn[r].state.flight_search.search_type = "roundtrip"
             /\ turn[r].state.flight_search.return_date = None ) =>
                /\ OutsideCalls(r) = {}
                /\ LastReply(r)[1] = "missing_params"


\* the turn of request r was classified end
EndTurnOf(r) == Chose(r) /\ ChosenDomain(r) = "end"

\* the positions of the assistant messages in a list
AssistantPositions(messages) ==
    {i \in 1..Len(messages) : messages[i].role = "ai"}

\* the content of the most recent assistant message of a list, the empty
\* string when it holds none
LastAssistantText(messages) ==
    IF AssistantPositions(messages) = {} THEN <<>>
    ELSE messages[CHOOSE i \in AssistantPositions(messages) :
                    \A j \in AssistantPositions(messages) : j <= i].content

ToolHandlers == {"ticketing_agent", "pnr_agent", "ancillary_agent"}

\* the deployment runs with the capability table as shipped
AsShipped == capabilities = ShippedCapabilities

\* C28: with the capability table as shipped the ids the ticketing, PNR
\* and ancillary handlers ask for are absent from the table, so whenever
\* one of them runs it replies with the not-supported message and makes
\* no call; the booking handler makes no lookup call either, so only the
\* flight handler's search reaches the vendor.
C28_ShippedTableClosesHandlers ==
    AsShipped =>
        /\ HandlerCapabilities \cap DOMAIN capabilities = {}
        /\ \A r \in Requests :
            /\ turn[r].ran \in ToolHandlers =>
                  /\ turn[r].raised_in = ""
                  /\ NotSupportedReply(r)
                  /\ OutsideCalls(r) = {}
            /\ turn[r].ran = "booking_agent" => OutsideCalls(r) = {}
            /\ OutsideCalls(r) # {} => RanSearch(r)

\* with the table as shipped: a flight search that reached the vendor and
\* a ticketing turn that was turned away
C28_Witness ==
    /\ AsShipped
    /\ RanSearch(1)
    /\ turn[2].ran = "ticketing_agent"
    /\ NotSupportedReply(2)
    /\ OutsideCalls(2) = {}


\* request r stores the state of its turn in this step
Stores(r) == turn[r].pc # "done" /\ turn'[r].pc = "done"

\* C30 as stated: once a session has been cleared, no state is stored for
\* its id until a request that starts afterwards writes one: the store of
\* a turn that was in flight when the session was cleared leaves the
\* session without an entry.
C30_ClearedStaysCleared ==
    [][\A r \in Requests :
          ( /\ Stores(r)
            /\ turn[r].cleared
            /\ sessions[turn[r].session_id] = <<>> ) =>
                sessions'[turn[r].session_id] = <<>>]_vars

(***************************************************************************)
(* Properties of the intent classifier, checked under SpecIntent           *)
(***************************************************************************)

\* the classified message, lower-cased, and its hits per lexicon
ClassifiedText == Lower(in_message)
TicketingHits == Score(TICKETING_KEYWORDS, ClassifiedText)
AncillaryHits == Score(ANCILLARY_KEYWORDS, ClassifiedText)
PnrHits == Score(PNR_KEYWORDS, ClassifiedText)
StrongHits == Score(FLIGHT_STRONG_KEYWORDS, ClassifiedText)
ChatHits == Score(CHAT_KEYWORDS, ClassifiedText)
BookingHits == Score(BOOKING_KEYWORDS, ClassifiedText)
WeakHits == Score(FLIGHT_KEYWORDS, ClassifiedText)
HasSearchContext ==
    /\ in_state # <<>>
    /\ \/ in_state[1].flight_search.origin # None
       \/ in_state[1].flight_search.destination # None
ContinuationMatch == HasSearchContext /\ AnyIn(CONTINUE_KEYWORDS, ClassifiedText)
FarewellMatch == AnyIn(FAREWELL_KEYWORDS, ClassifiedText)
Classified == out_intent # Pending

\* C8 as stated: every message with a strong-flight keyword and a chat
\* keyword is classified flight, whatever else it contains.
C8_StrongAndChatAlwaysFlight ==
    (Classified /\ StrongHits >= 1 /\ ChatHits >= 1) => out_intent = "flight"

\* C8 amended: a message with a strong-flight keyword and a chat keyword
\* that has no ticketing keyword, no ancillary keyword and fewer than two
\* PNR keywords is classified flight, for every prior state.
C8_StrongBeatsChat ==
    (/\ Classified /\ StrongHits >= 1 /\ ChatHits >= 1
     /\ TicketingHits = 0 /\ AncillaryHits = 0 /\ PnrHits < 2)
        => out_intent = "flight"

C8_Witness ==
    /\ out_intent = "flight" /\ StrongHits >= 1 /\ ChatHits >= 1
    /\ TicketingHits = 0 /\ AncillaryHits = 0 /\ PnrHits < 2

\* exactly one PNR-lexicon hit and no hit in any other domain lexicon
OnlyOnePnrKeyword ==
    /\ PnrHits = 1 /\ TicketingHits = 0 /\ AncillaryHits = 0
    /\ StrongHits = 0 /\ ChatHits = 0 /\ BookingHits = 0 /\ WeakHits = 0

\* C9 as stated: a message with exactly one PNR keyword and no keyword of
\* another domain lexicon is classified chat, for every prior state.
C9_OnePnrKeywordIsChat ==
    (Classified /\ OnlyOnePnrKeyword) => out_intent = "chat"

\* C9 amended: such a message is never classified pnr; it is classified
\* chat unless the continuation tier applies (the prior state has an origin
\* or a destination and the message has a continuation token), which gives
\* flight, or else a farewell keyword is present, which gives end.
C9_OnePnrKeywordNeverPnr ==
    (Classified /\ OnlyOnePnrKeyword) =>
        /\ out_intent # "pnr"
        /\ out_intent = IF ContinuationMatch THEN "flight"
                        ELSE IF FarewellMatch THEN "end"
                        ELSE "chat"

C9_Witness ==
    /\ out_intent = "chat" /\ OnlyOnePnrKeyword
    /\ ~ContinuationMatch /\ ~FarewellMatch

\* C10: the result is the outcome of the first matching tier in the order
\* ticketing (>=1), ancillary (>=1), pnr (>=2), strong flight (>=1),
\* chat (>=1), booking (>=2), weak flight (>=2), continuation, farewell,
\* default chat.
C10_FirstMatchingTier ==
    Classified =>
        /\ TicketingHits >= 1 => out_intent = "ticketing"
        /\ (TicketingHits = 0 /\ AncillaryHits >= 1) => out_intent = "ancillary"
        /\ (TicketingHits = 0 /\ AncillaryHits = 0 /\ PnrHits >= 2)
              => out_intent = "pnr"
        /\ (TicketingHits = 0 /\ AncillaryHits = 0 /\ PnrHits < 2)
              => \/ StrongHits >= 1 /\ out_intent = "flight"
                 \/ StrongHits = 0 /\ ChatHits >= 1 /\ out_intent = "chat"
                 \/ /\ StrongHits = 0 /\ ChatHits = 0
                    /\ BookingHits >= 2 /\ out_intent = "booking"
                 \/ /\ StrongHits = 0 /\ ChatHits = 0 /\ BookingHits < 2
                    /\ WeakHits >= 2 /\ out_intent = "flight"
                 \/ /\ StrongHits = 0 /\ ChatHits = 0 /\ BookingHits < 2
                    /\ WeakHits < 2
                    /\ out_intent = IF ContinuationMatch THEN "flight"
                                    ELSE IF FarewellMatch THEN "end"
                                    ELSE "chat"

\* a chat keyword overriding two weak flight keywords
C10_Witness ==
    /\ out_intent = "chat" /\ ChatHits >= 1 /\ WeakHits >= 2
    /\ StrongHits = 0 /\ TicketingHits = 0 /\ AncillaryHits = 0 /\ PnrHits < 2

\* no tier above the continuation tier matches the message
NoHigherTier ==
    /\ TicketingHits = 0 /\ AncillaryHits = 0 /\ PnrHits < 2
    /\ StrongHits = 0 /\ ChatHits = 0 /\ BookingHits < 2 /\ WeakHits < 2

\* the continuation tokens the statement names
StatedTokens ==
    << <<"o", "k">>, <<"t", "i", "u1ebf", "p">>, <<"y", "e", "s">>,
       <<"v", "u00e2", "n", "g">> >>

\* C11: a message that matches no higher tier and contains a continuation
\* token is classified flight when the prior state has an origin or a
\* destination, and is not classified flight when it has neither.
C11_ContinuationNeedsContext ==
    (Classified /\ NoHigherTier /\ AnyIn(StatedTokens, ClassifiedText)) =>
        /\ HasSearchContext => out_intent = "flight"
        /\ ~HasSearchContext => out_intent # "flight"

\* a continuation token resolved against a prior state that has only a
\* destination
C11_Witness ==
    /\ out_intent = "flight" /\ NoHigherTier
    /\ AnyIn(StatedTokens, ClassifiedText)
    /\ in_state # <<>>
    /\ in_state[1].flight_search.origin = None
    /\ in_state[1].flight_search.destination # None

(***************************************************************************)
(* Properties of the aggregator, checked under SpecSearch                  *)
(***************************************************************************)

Returned == aggregate # NoResult

\* a source call succeeds when its task hands gather a success dict; it
\* fails when the task hands over a failure dict or an exception
CallSucceeded(s) == task_out[s].kind = "dict" /\ task_out[s].success
CallFailed(s) == ~CallSucceeded(s)
FailedCalls == {s \in Sources : CallFailed(s)}

SourceIndex(s) == CHOOSE i \in 1..Len(API_SOURCES) : API_SOURCES[i] = s

SeqToSet(q) == {q[i] : i \in 1..Len(q)}

SortedByPrice(flights) ==
    \A i, j \in 1..Len(flights) :
        i < j => flights[i].total_price <= flights[j].total_price

\* the offers the succeeding sources handed over
OffersOfSucceeding ==
    UNION {SeqToSet(task_out[s].flights) : s \in {t \in Sources : CallSucceeded(t)}}

RECURSIVE SumOfLengths(_)
SumOfLengths(S) ==
    IF S = {} THEN 0
    ELSE LET s == CHOOSE t \in S : TRUE
         IN  (IF CallSucceeded(s) THEN Len(task_out[s].flights) ELSE 0)
             + SumOfLengths(S \ {s})

\* C3 as stated, for the runs in which a succeeding source hands over an
\* offer: when exactly one source call fails, the aggregate has
\* success=true, a non-empty price-sorted list, and a failed-sources list
\* that holds exactly the failing source.
C3_OneFailureTolerated ==
    (Returned /\ Cardinality(FailedCalls) = 1 /\ OffersOfSucceeding # {}) =>
        /\ aggregate.success
        /\ aggregate.flights # <<>>
        /\ SortedByPrice(aggregate.flights)
        /\ Len(aggregate.sources.failed) = 1
        /\ SeqToSet(aggregate.sources.failed) = FailedCalls

\* C4 as stated: when all three source calls fail, the aggregate has
\* success=false, no flights and all three sources listed as failed, and
\* the user gets the search-failure message.
C4_AllFailuresReported ==
    (Returned /\ FailedCalls = Sources) =>
        /\ ~aggregate.success
        /\ aggregate.flights = <<>>
        /\ SeqToSet(aggregate.sources.failed) = Sources
        /\ format_flight_results(aggregate, DefaultFlightSearchParams).text
              = "search_failed"

\* C5: the merged list is fixed by the per-source results alone: offers are
\* ordered by price, equal prices by source in the order F1, F10, VJ, and
\* within a source in the order the source returned them (ascending id);
\* the order in which the tasks finished does not show.
C5_MergeIndependentOfCompletion ==
    Returned =>
        /\ SeqToSet(aggregate.flights) = OffersOfSucceeding
        /\ \A i, j \in 1..Len(aggregate.flights) :
            i < j =>
                LET a == aggregate.flights[i]
                    b == aggregate.flights[j]
                IN  \/ a.total_price < b.total_price
                    \/ /\ a.total_price = b.total_price
                       /\ SourceIndex(a.source) < SourceIndex(b.source)
                    \/ /\ a.total_price = b.total_price
                       /\ a.source = b.source
                       /\ a.id < b.id

\* two sources quoting the same price, finished in another order than started
C5_Witness ==
    /\ Returned
    /\ completed # API_SOURCES
    /\ \E i, j \in 1..Len(aggregate.flights) :
        /\ i < j
        /\ aggregate.flights[i].total_price = aggregate.flights[j].total_price
        /\ aggregate.flights[i].source # aggregate.flights[j].source

\* C6: the merged list is in non-decreasing order of total price and holds
\* exactly the offers of the succeeding sources, each once, in whatever
\* order each source listed its offers.
C6_MergedSortedAndComplete ==
    Returned =>
        /\ SortedByPrice(aggregate.flights)
        /\ SeqToSet(aggregate.flights) = OffersOfSucceeding
        /\ Len(aggregate.flights) = SumOfLengths(Sources)
        /\ aggregate.total_results = Len(aggregate.flights)

\* a source that listed a dearer offer before a cheaper one
C6_Witness ==
    /\ Returned
    /\ \E s \in Sources :
        /\ CallSucceeded(s)
        /\ Len(task_out[s].flights) >= 2
        /\ task_out[s].flights[1].total_price > task_out[s].flights[2].total_price
    /\ Len(aggregate.flights) >= 3



\* the text the user is shown for the aggregate
ShownText == format_flight_results(aggregate, DefaultFlightSearchParams).text

\* every source call handed over a success dict, none of them an offer
AllAnsweredEmpty ==
    /\ \A s \in Sources : CallSucceeded(s)
    /\ OffersOfSucceeding = {}

\* C23: the aggregate's success flag is true exactly when the merged list
\* is non-empty, however many sources failed; when every source answers
\* without error and without offers the aggregate has success=false, an
\* empty failed-sources list, and the user is shown the search-failure
\* message, not the no-flights message.
C23_SuccessIffFlights ==
    Returned =>
        /\ aggregate.success <=> (aggregate.flights # <<>>)
        /\ aggregate.success <=> (OffersOfSucceeding # {})
        /\ AllAnsweredEmpty =>
              /\ ~aggregate.success
              /\ aggregate.sources.failed = <<>>
              /\ Len(aggregate.sources.successful) = Len(API_SOURCES)
              /\ ShownText = "search_failed"

\* three sources that answered without offers
C23_Witness ==
    /\ Returned
    /\ AllAnsweredEmpty
    /\ ShownText = "search_failed"


\* the search call of source s has been started
Started(s) == task_pc[s] # "new"

\* the search call of source s has finished
Finished(s) == task_pc[s] = "done"

\* at every moment of a call: a source has one search call once its task
\* has started and none before, whether the call failed or not, and the
\* aggregate is returned only when all the calls have finished
OneCallEach ==
    /\ \A s \in Sources : vendor_calls[s] = (IF Started(s) THEN 1 ELSE 0)
    /\ Returned => \A s \in Sources : Finished(s) /\ vendor_calls[s] = 1

\* C24: search_all_sources starts exactly one search call per configured
\* source, never a second one for a source that failed, and returns only
\* after all three calls have finished; when every call returns or fails,
\* the aggregate is eventually returned.
C24_OneCallEachThenReturn == []OneCallEach /\ <>Returned

\* an aggregate returned after a failed call, one call per source
C24_Witness ==
    /\ Returned
    /\ FailedCalls # {}
    /\ \A s \in Sources : vendor_calls[s] = 1


\* C29 as stated: in every aggregate returned, each configured source is
\* in exactly one of the successful-sources and failed-sources lists, also
\* when a source call ends in an exception outside its own error handling.
C29_EverySourceListedOnce ==
    Returned =>
        /\ SeqToSet(aggregate.sources.successful)
              \cap SeqToSet(aggregate.sources.failed) = {}
        /\ SeqToSet(aggregate.sources.successful)
              \cup SeqToSet(aggregate.sources.failed) = Sources
        /\ Len(aggregate.sources.successful) + Len(aggregate.sources.failed)
              = Len(API_SOURCES)

(***************************************************************************)
(* Properties of the extractor, checked under SpecExtract                  *)
(***************************************************************************)

\* the extractor has been called on the message
ExtractedOnce == Len(ext_results) >= 1

\* the message that names Korea as the destination
KoreaMessage ==
    <<"u0111", "i", " ", "H", "u00e0", "n", " ", "Q", "u", "u1ed1", "c">>

\* the airport entry starts with the code
StartsWith(code, airport) ==
    Len(airport) >= Len(code) /\ SubSeq(airport, 1, Len(code)) = code

\* some suggestion of the result lists an airport with the code
SuggestsAirport(result, code) ==
    \E i \in 1..Len(result.country_suggestions) :
        \E j \in 1..Len(result.country_suggestions[i].airports) :
            StartsWith(code, result.country_suggestions[i].airports[j])

\* C14 as stated: for a message that names its destination by country
\* only, the extractor leaves the destination unresolved and returns a
\* non-empty list of country suggestions, which for Korea includes ICN.
C14_CountryGivesSuggestions ==
    (ext_message \in CountryMessages /\ ExtractedOnce) =>
        /\ ext_results[1].destination = None
        /\ ext_results[1].country_suggestions # <<>>
        /\ ext_message = KoreaMessage =>
              SuggestsAirport(ext_results[1], <<"I", "C", "N">>)

\* the airport a route abbreviation stands for
StatedCode(abbrev) ==
    CASE abbrev \in {<<"s", "g">>, <<"s", "g", "n">>, <<"h", "c", "m">>} -> <<"S", "G", "N">>
      [] abbrev \in {<<"h", "n">>, <<"h", "a", "n">>} -> <<"H", "A", "N">>
      [] abbrev \in {<<"d", "n">>, <<"d", "a", "d">>} -> <<"D", "A", "D">>

\* the message is the route a-b, followed by one of the suffixes
IsRouteMessage(a, b) ==
    \E joint \in RouteJoints, suffix \in RouteSuffixes :
        ext_message = ROUTE_ABBREVS[a] \o joint \o ROUTE_ABBREVS[b] \o suffix

\* C20: for every ordered pair (a, b) of route abbreviations, a message
\* "a-b" yields origin = code(a) and destination = code(b), every
\* repetition of the extraction yields the same route, and airport codes
\* or city names later in the message do not override it.
C20_RoutePatternOrdered ==
    \A a, b \in 1..Len(ROUTE_ABBREVS) :
        IsRouteMessage(a, b) =>
            \A i \in 1..Len(ext_results) :
                /\ ext_results[i].origin = StatedCode(ROUTE_ABBREVS[a])
                /\ ext_results[i].destination = StatedCode(ROUTE_ABBREVS[b])
                /\ ext_results[i].country_suggestions = <<>>

\* "hn-sg" followed by two airport codes, extracted twice: HAN then SGN
\* both times
C20_Witness ==
    /\ ext_message = <<"h", "n", "-", "s", "g", " ", "C", "X", "R", " ", "P", "Q", "C">>
    /\ Len(ext_results) = 2
    /\ ext_results[1].origin = <<"H", "A", "N">>
    /\ ext_results[1].destination = <<"S", "G", "N">>
    /\ ext_results[2].origin = ext_results[1].origin
    /\ ext_results[2].destination = ext_results[1].destination



\* the relative-date keywords with their offsets in days
StatedRelativeDates ==
    { <<<<"h", "u00f4", "m", " ", "n", "a", "y">>, 0>>,
      <<<<"n", "g", "u00e0", "y", " ", "m", "a", "i">>, 1>>,
      <<<<"m", "u1ed1", "t">>, 2>>,
      <<<<"t", "u", "u1ea7", "n", " ", "s", "a", "u">>, 7>> }

\* the offsets of the keywords of relative_dates that the message holds,
\* on the given day
RelativeOffsets(message, today) ==
    { days_offset(k, today) :
        k \in {h \in 1..Len(relative_dates) :
                  Contains(relative_dates[h][1], Lower(message))} }

EndedRequests ==
    {request_log[i] : i \in 1..Len(request_log)}
        \cup (IF request.pc \in {"returned", "raised"} THEN {request} ELSE {})

\* the answers that are a timeout or a network error
TransientAnswers == {"timeout", "network_error"}

\* C16 as stated: an attempt that fails with a timeout or a network error
\* is followed by another attempt after an exponentially growing wait,
\* until the third attempt; no request is attempted more than three times,
\* and a request that ended has a result or an error.
C16_TransientFailuresRetried ==
    /\ request.attempt_number <= 3
    /\ \A req \in EndedRequests :
        /\ req.attempt_number \in 1..3
        /\ req.outcome # ""
        /\ \A n \in 1..Len(req.answers) :
              (req.answers[n] \in TransientAnswers /\ n < 3) =>
                  /\ Len(req.answers) > n
                  /\ req.waits[n] = 2 ^ (n - 1)

=============================================================================
